---- MODULE Spec2Model ----
(***************************************************************************)
(* A model of the tree-walk Lox interpreter of rust-lox-impl               *)
(* (src/src/lib): the runtime values, the environment of scopes, the       *)
(* callable protocol and the statement / expression evaluator.             *)
(*                                                                         *)
(* The evaluator is recursive in the source (execute, evaluate and the     *)
(* function call re-enter each other), so it is modelled as a family of    *)
(* mutually recursive operators, one per Rust function, which thread the   *)
(* mutable state the Rust code passes by &mut: the Environment, the        *)
(* Interpreter's error reporter, and the two output streams.  One action   *)
(* of the state machine is one iteration of the loop of                    *)
(* Interpreter::interpret.                                                 *)
(*                                                                         *)
(* Option<T> is modelled as a sequence of length 0 (None) or 1 (Some).     *)
(* Result<T, RuntimeError> is modelled as a record with an `ok` flag.      *)
(***************************************************************************)
EXTENDS Integers, Sequences, FiniteSets, TLC

VARIABLES
    program,    \* the Vec<Stmt> handed to Interpreter::interpret
    pc,         \* index of the next statement of interpret's for loop
    st,         \* the mutable state: environment, interpreter, streams
    environment, \* an Environment driven through its own methods
    last,       \* the last method called on it, its arguments and result
    lox,        \* the Lox of a run of Lox::run
    scanner,    \* the Scanner of the run
    parser,     \* the Parser of the run and the statements it has parsed
    run         \* where the run is, and its exit code once it has ended

interp_vars == <<program, pc, st>>
env_vars == <<environment, last>>
lox_vars == <<lox, scanner, parser, run>>
vars == <<interp_vars, env_vars, lox_vars>>

(***************************************************************************)
(* Bounds of the model.                                                    *)
(***************************************************************************)
\* Operand values of the generated expressions are the numbers 0..MaxNum.
MaxNum == 1
\* Number of iterations a single run may spend in while loops.
MaxLoopIters == 6
\* Values the system clock may show (seconds since the epoch), 1..MaxClock.
MaxClock == 1

(***************************************************************************)
(* Option and Result.                                                      *)
(***************************************************************************)
None == << >>
Some(x) == << x >>
is_some(o) == Len(o) = 1
unwrap(o) == o[1]

Ok(v, s) == [ok |-> TRUE, val |-> v, st |-> s]
Err(e, s) == [ok |-> FALSE, err |-> e, st |-> s]

(***************************************************************************)
(* Tokens (token.rs).  A token type is a record whose tt field names the   *)
(* variant; String and Number carry their literal.                         *)
(***************************************************************************)
TT(name) == [tt |-> name]
TTNumber(n) == [tt |-> "Number", n |-> n]
TTString(s) == [tt |-> "String", s |-> s]

Token(token_type, lexeme, line) ==
    [token_type |-> token_type, lexeme |-> lexeme, line |-> line]

\* An identifier token; only its lexeme and line are ever read.
Ident(name, line) == Token(TT("Identifier"), name, line)

(***************************************************************************)
(* Runtime values (object.rs, and the Clock / PrintEnv variants that       *)
(* interpreter.rs and environment.rs use).                                 *)
(***************************************************************************)
NilV == [t |-> "Nil"]
BooleanV(b) == [t |-> "Boolean", b |-> b]
NumberV(n) == [t |-> "Number", n |-> n]
\* A float that is not an integer of the model (a non-integral quotient, an
\* infinity or a NaN): kept as the quotient that produced it.
NonIntV(l, r) == [t |-> "Number", quot |-> <<l, r>>]
StringV(s) == [t |-> "String", s |-> s]
ClockV == [t |-> "Clock"]
PrintEnvV == [t |-> "PrintEnv"]

IsInt(v) == v.t = "Number" /\ "n" \in DOMAIN v

(***************************************************************************)
(* Scope (environment.rs): a HashMap<String, LoxObject>, modelled as a     *)
(* function whose domain is the set of names it binds.                     *)
(***************************************************************************)
Scope_new == [n \in {} |-> NilV]

\* HashMap::insert: binds the name and returns the value it replaced, if any.
Scope_define(scope, name, value) ==
    [scope |-> [n \in (DOMAIN scope) \cup {name} |->
                   IF n = name THEN value ELSE scope[n]],
     old   |-> IF name \in DOMAIN scope THEN Some(scope[name]) ELSE None]

Scope_get(scope, name) ==
    IF name \in DOMAIN scope THEN Some(scope[name]) ELSE None

(***************************************************************************)
(* MultiScope: a LinkedList<Scope>; the back of the list (the last element *)
(* of the sequence) is the innermost scope.                                *)
(***************************************************************************)
MultiScope_new == << Scope_new >>

\* pop_innermost_scope, were the one remaining layer popped as well.
pop_innermost_scope_to_empty(ms) ==
    [ms |-> SubSeq(ms, 1, Len(ms) - 1), popped |-> Some(ms[Len(ms)])]

pop_innermost_scope(ms) ==
    IF Len(ms) = 1
    THEN [ms |-> ms, popped |-> None]
    ELSE [ms |-> SubSeq(ms, 1, Len(ms) - 1), popped |-> Some(ms[Len(ms)])]

\* pop_front of the one remaining layer.
consume_final_layer(ms) == ms[1]

push_as_innermost_scope(ms, scope) == Append(ms, scope)

MultiScope_define(ms, name, value) ==
    [ms EXCEPT ![Len(ms)] = Scope_define(@, name, value).scope]

\* The layers that bind the name; the loops of assign and get walk from the
\* innermost layer outward and stop at the first of them.
LayersWith(ms, name) == {i \in 1..Len(ms) : name \in DOMAIN ms[i]}
Innermost(layers) == CHOOSE i \in layers : \A j \in layers : j <= i

\* assign that walks the layers from the outermost inward.
MultiScope_assign_outermost(ms, name, value) ==
    IF LayersWith(ms, name) = {}
    THEN [ms |-> ms, old |-> None]
    ELSE LET i == CHOOSE k \in LayersWith(ms, name) :
                      \A j \in LayersWith(ms, name) : k <= j
         IN  [ms  |-> [ms EXCEPT ![i] = Scope_define(@, name, value).scope],
              old |-> Scope_define(ms[i], name, value).old]

MultiScope_assign(ms, name, value) ==
    IF LayersWith(ms, name) = {}
    THEN [ms |-> ms, old |-> None]
    ELSE LET i == Innermost(LayersWith(ms, name))
         IN  [ms  |-> [ms EXCEPT ![i] = Scope_define(@, name, value).scope],
              old |-> Scope_define(ms[i], name, value).old]

MultiScope_get(ms, name) ==
    IF LayersWith(ms, name) = {}
    THEN None
    ELSE Scope_get(ms[Innermost(LayersWith(ms, name))], name)

(***************************************************************************)
(* Environment: an optional chain of local scopes over the global scope.   *)
(***************************************************************************)
Environment_new ==
    [local  |-> None,
     global |-> Scope_define(
                    Scope_define(Scope_new, "clock", ClockV).scope,
                    "print_env", PrintEnvV).scope]

add_scope_layer(env) ==
    IF is_some(env.local)
    THEN [env EXCEPT !.local = Some(push_as_innermost_scope(unwrap(@), Scope_new))]
    ELSE [env EXCEPT !.local = Some(MultiScope_new)]

\* pop_scope_layer with the last layer left in place: the local chain is
\* never set back to None.
pop_scope_layer_keeps_last(env) ==
    IF is_some(env.local)
    THEN IF is_some(pop_innermost_scope(unwrap(env.local)).popped)
         THEN [env    |-> [env EXCEPT !.local =
                              Some(pop_innermost_scope(unwrap(@)).ms)],
               popped |-> pop_innermost_scope(unwrap(env.local)).popped]
         ELSE [env    |-> env,
               popped |-> Some(consume_final_layer(unwrap(env.local)))]
    ELSE [env |-> env, popped |-> None]

\* Returns the environment after the call and the layer that was removed.
pop_scope_layer(env) ==
    IF is_some(env.local)
    THEN IF is_some(pop_innermost_scope(unwrap(env.local)).popped)
         THEN [env    |-> [env EXCEPT !.local =
                              Some(pop_innermost_scope(unwrap(@)).ms)],
               popped |-> pop_innermost_scope(unwrap(env.local)).popped]
         ELSE [env    |-> [env EXCEPT !.local = None],
               popped |-> Some(consume_final_layer(unwrap(env.local)))]
    ELSE [env |-> env, popped |-> None]

\* define that binds in the global scope whatever local layers exist.
Environment_define_global(env, name, value) ==
    [env EXCEPT !.global = Scope_define(@, name, value).scope]

Environment_define(env, name, value) ==
    IF is_some(env.local)
    THEN [env EXCEPT !.local = Some(MultiScope_define(unwrap(@), name, value))]
    ELSE [env EXCEPT !.global = Scope_define(@, name, value).scope]

RuntimeError_new(token, msg) == [token |-> token, msg |-> msg]

\* Returns the environment after the call and whether the call returned Ok.
\* The global scope is written with Scope::define whenever no local layer
\* took the value, and only the value it returns decides success.
Environment_assign(env, name, value) ==
    LET in_local == IF is_some(env.local)
                    THEN is_some(MultiScope_assign(unwrap(env.local), name.lexeme, value).old)
                    ELSE FALSE
        env1 == IF is_some(env.local)
                THEN [env EXCEPT !.local =
                         Some(MultiScope_assign(unwrap(@), name.lexeme, value).ms)]
                ELSE env
        g == Scope_define(env1.global, name.lexeme, value)
        env2 == IF in_local THEN env1 ELSE [env1 EXCEPT !.global = g.scope]
        assigned == IF in_local THEN TRUE ELSE is_some(g.old)
    IN  [ok  |-> assigned,
         env |-> env2,
         err |-> RuntimeError_new(name, "Undefined variable " \o name.lexeme)]

Environment_get(env, name) ==
    LET loc == IF is_some(env.local)
               THEN MultiScope_get(unwrap(env.local), name.lexeme)
               ELSE None
        found == IF is_some(loc) THEN loc ELSE Scope_get(env.global, name.lexeme)
    IN  [ok  |-> is_some(found),
         val |-> IF is_some(found) THEN unwrap(found) ELSE NilV,
         err |-> RuntimeError_new(name, "Undefined variable " \o name.lexeme)]

\* Number of local scope layers of an environment.
ScopeDepth(env) == IF is_some(env.local) THEN Len(unwrap(env.local)) ELSE 0

(***************************************************************************)
(* The syntax tree (grammar.rs).  Every node is a record whose k field     *)
(* names the variant of Expr or Stmt.                                      *)
(***************************************************************************)
BinaryExpr(lhs, operator, rhs) ==
    [k |-> "Binary", lhs |-> lhs, operator |-> operator, rhs |-> rhs]
LogicalExpr(lhs, operator, rhs) ==
    [k |-> "Logical", lhs |-> lhs, operator |-> operator, rhs |-> rhs]
GroupingExpr(expr) == [k |-> "Grouping", expr |-> expr]
LiteralExpr(token) == [k |-> "Literal", token |-> token]
UnaryExpr(operator, rhs) == [k |-> "Unary", operator |-> operator, rhs |-> rhs]
VariableExpr(name) == [k |-> "Variable", name |-> name]
AssignmentExpr(variable, expr) ==
    [k |-> "Assignment", variable |-> variable, expr |-> expr]
CallExpr(callee, closing_paren, args) ==
    [k |-> "Call", callee |-> callee, closing_paren |-> closing_paren,
     args |-> args]

VariableDeclarationStmt(name, initializer) ==
    [k |-> "VariableDeclaration", name |-> name, initializer |-> initializer]
ExpressionStmt(expr) == [k |-> "Expression", expr |-> expr]
PrintStmt(expr) == [k |-> "Print", expr |-> expr]
WhileStmt(condition, body) ==
    [k |-> "While", condition |-> condition, body |-> body]
FunctionDeclarationStmt(name, params, body) ==
    [k |-> "FunctionDeclaration", name |-> name, params |-> params,
     body |-> body]
BlockStmt(body) == [k |-> "Block", body |-> body]
IfStmt(condition, then_branch, else_branch) ==
    [k |-> "If", condition |-> condition, then_branch |-> then_branch,
     else_branch |-> else_branch]
ReturnStmt(return_keyword, value) ==
    [k |-> "Return", return_keyword |-> return_keyword, value |-> value]

(***************************************************************************)
(* LoxObject (object.rs): truthiness, equality and display.                *)
(***************************************************************************)
is_truthy(v) ==
    CASE v.t = "Boolean" -> v.b
      [] v.t = "Nil"     -> FALSE
      [] v.t = "Number"  -> IF IsInt(v) THEN v.n # 0 ELSE TRUE
      [] OTHER           -> TRUE

\* f64 equality of two floats that are kept as quotients: a NaN (0/0) equals
\* nothing, two infinities are equal when they have the same sign, and two
\* finite quotients when they are the same rational.
Quot_eq(p, q) ==
    IF p[2] = 0 \/ q[2] = 0
    THEN p[2] = 0 /\ q[2] = 0 /\ p[1] # 0 /\ q[1] # 0 /\ (p[1] > 0 <=> q[1] > 0)
    ELSE p[1] * q[2] = q[1] * p[2]

\* eq, were a function equal to itself.
LoxObject_eq_reflexive(l, r) == l = r

LoxObject_eq(l, r) ==
    CASE l.t = "Nil" /\ r.t = "Nil"         -> TRUE
      [] l.t = "String" /\ r.t = "String"   -> l.s = r.s
      [] l.t = "Number" /\ r.t = "Number"   ->
             IF IsInt(l) /\ IsInt(r) THEN l.n = r.n
             ELSE IF IsInt(l) \/ IsInt(r) THEN FALSE
             ELSE Quot_eq(l.quot, r.quot)
      [] l.t = "Boolean" /\ r.t = "Boolean" -> l.b = r.b
      [] l.t = "Function" /\ r.t = "Function" -> FALSE
      [] OTHER -> FALSE

Digit(d) == SubSeq("0123456789", d + 1, d + 1)

RECURSIVE fmt_usize(_)
fmt_usize(n) == IF n < 10 THEN Digit(n) ELSE fmt_usize(n \div 10) \o Digit(n % 10)

\* Display of an f64 that holds an integer: no fraction is printed.  A float
\* kept as a quotient is shown as that quotient, not as its decimal expansion.
fmt_f64(n) == IF n < 0 THEN "-" \o fmt_usize(0 - n) ELSE fmt_usize(n)

LoxObject_fmt(v) ==
    CASE v.t = "String"   -> v.s
      [] v.t = "Number"   ->
             IF IsInt(v) THEN fmt_f64(v.n)
             ELSE IF v.quot[2] # 0
                  THEN fmt_f64(v.quot[1]) \o "/" \o fmt_f64(v.quot[2])
                  ELSE IF v.quot[1] = 0 THEN "NaN"
                  ELSE IF v.quot[1] > 0 THEN "inf" ELSE "-inf"
      [] v.t = "Boolean"  -> IF v.b THEN "true" ELSE "false"
      [] v.t = "Nil"      -> "nil"
      [] v.t = "Function" -> "<fn " \o v.name.lexeme \o ">"
      [] v.t = "Clock"    -> "<fn cllock>"
      [] v.t = "PrintEnv" -> "<fn print_env>"

(***************************************************************************)
(* LoxFunction (function.rs).                                              *)
(***************************************************************************)
LoxFunction_from(decl) ==
    [t |-> "Function", name |-> decl.name, params |-> decl.params,
     body |-> decl.body, state |-> Scope_new]

\* arity off by one.
LoxFunction_arity_plus_one(function) == Len(function.params) + 1

LoxFunction_arity(function) == Len(function.params)
Clock_arity == 0
PrintEnv_arity == 0

(***************************************************************************)
(* The state threaded through the evaluator.                               *)
(*   env        the Environment (exec_env)                                 *)
(*   had_error  error_reporter.had_error of the Interpreter in use         *)
(*   stdout     the lines printed with println!                            *)
(*   stderr     the errors printed with eprintln!                          *)
(*   now        the reading of the system clock                            *)
(*   fuel       while-loop iterations left to this run (MaxLoopIters)      *)
(*   cut        whether a loop was stopped by the model for lack of fuel   *)
(*   trace      a history of what the evaluator did, in order; nothing     *)
(*              reads it but the properties stated below                   *)
(***************************************************************************)
Observe(s, event) == [s EXCEPT !.trace = Append(@, event)]

\* ErrorReporter::error (error/error_reporter.rs): print and set the flag.
ErrorReporter_error(s, error) ==
    Observe([s EXCEPT !.stderr = Append(@, error), !.had_error = TRUE],
            [ev |-> "error", line |-> error.token.line])

\* Environment::in_new_local_scope runs a closure between add_scope_layer
\* and pop_scope_layer; its two halves are applied around the closure's
\* model.  The history keeps the depth seen before the first half and after
\* the second.
in_new_local_scope_add(s) ==
    [Observe(s, [ev |-> "enter", depth |-> ScopeDepth(s.env)])
        EXCEPT !.env = add_scope_layer(s.env)]

in_new_local_scope_pop(s) ==
    Observe([s EXCEPT !.env = pop_scope_layer(s.env).env],
            [ev |-> "leave", depth |-> ScopeDepth(pop_scope_layer(s.env).env)])

RECURSIVE execute(_, _), while_statement(_, _), return_statement(_, _),
          if_statement(_, _), execute_block(_, _), block_body(_, _, _),
          expression_statement(_, _), print_statement(_, _),
          variable_statement(_, _), function_declaration_statement(_, _),
          evaluate(_, _), evaluate_assignment(_, _),
          evaluate_call_expr(_, _), evaluate_args(_, _, _, _),
          evaluate_logical_expression(_, _), evaluate_unary(_, _),
          evaluate_binary(_, _), LoxFunction_call(_, _, _),
          bind_params(_, _, _, _), call_body(_, _, _)

\* Transform an Expr::Literal's token into a LoxObject.
evaluate_literal(e, s) ==
    LET ty == e.token.token_type
    IN  CASE ty.tt = "String" -> Ok(StringV(ty.s), s)
          [] ty.tt = "Number" ->
                 Ok(IF "n" \in DOMAIN ty THEN NumberV(ty.n)
                    ELSE NonIntV(ty.quot[1], ty.quot[2]), s)
          [] ty.tt = "True"   -> Ok(BooleanV(TRUE), s)
          [] ty.tt = "False"  -> Ok(BooleanV(FALSE), s)
          [] ty.tt = "Nil"    -> Ok(NilV, s)
          [] OTHER -> Err(RuntimeError_new(e.token,
                            "Tried to evaluate token '" \o e.token.lexeme
                            \o "' as literal"), s)

\* The arithmetic of f64 on the integers of the model: a quotient that is not
\* an integer is kept as it is.  The other operators are given integers only
\* by the programs below.
F64_div(l, r) ==
    IF IsInt(l) /\ IsInt(r) /\ r.n # 0 /\ l.n % r.n = 0
    THEN NumberV(l.n \div r.n)
    ELSE IF IsInt(l) /\ IsInt(r) THEN NonIntV(l.n, r.n) ELSE NonIntV(0, 0)

\* evaluate_binary, were the right operand evaluated before the left.
evaluate_binary_right_first(e, s) ==
    LET r == evaluate(e.rhs, s)
        l == evaluate(e.lhs, r.st)
        op == e.operator.token_type.tt
        left == l.val
        right == r.val
        both == left.t = "Number" /\ right.t = "Number"
        fail(msg) == Err(RuntimeError_new(e.operator, msg), l.st)
    IN  IF ~r.ok THEN r
        ELSE IF ~l.ok THEN l
        ELSE CASE op = "Minus" ->
                   IF both THEN Ok(NumberV(left.n - right.n), l.st)
                   ELSE fail("Can only subtract number types")
               [] op = "Plus" ->
                   IF both THEN Ok(NumberV(left.n + right.n), l.st)
                   ELSE IF left.t = "String" /\ right.t = "String"
                        THEN Ok(StringV(left.s \o right.s), l.st)
                        ELSE fail("Can only add number + number or concatenate string + string")
               [] op = "Star" ->
                   IF both THEN Ok(NumberV(left.n * right.n), l.st)
                   ELSE fail("Can only multiply number types")
               [] op = "Slash" ->
                   IF both THEN Ok(F64_div(left, right), l.st)
                   ELSE fail("Can only divide number types")
               [] op = "Greater" ->
                   IF both THEN Ok(BooleanV(left.n > right.n), l.st)
                   ELSE fail("Can only compare number types with >")
               [] op = "GreaterEqual" ->
                   IF both THEN Ok(BooleanV(left.n >= right.n), l.st)
                   ELSE fail("Can only compare number types with >=")
               [] op = "Less" ->
                   IF both THEN Ok(BooleanV(left.n < right.n), l.st)
                   ELSE fail("Can only compare number types with <")
               [] op = "LessEqual" ->
                   IF both THEN Ok(BooleanV(left.n <= right.n), l.st)
                   ELSE fail("Can only compare number types with <=")
               [] op = "EqualEqual" -> Ok(BooleanV(LoxObject_eq(left, right)), l.st)
               [] op = "BangEqual" -> Ok(BooleanV(~LoxObject_eq(left, right)), l.st)
               [] OTHER -> fail("Cannot use token " \o e.operator.lexeme
                                \o " for binary operation")

evaluate_binary(e, s) ==
    LET l == evaluate(e.lhs, s)
        r == evaluate(e.rhs, l.st)
        op == e.operator.token_type.tt
        left == l.val
        right == r.val
        both == left.t = "Number" /\ right.t = "Number"
        fail(msg) == Err(RuntimeError_new(e.operator, msg), r.st)
    IN  IF ~l.ok THEN l
        ELSE IF ~r.ok THEN r
        ELSE CASE op = "Minus" ->
                   IF both THEN Ok(NumberV(left.n - right.n), r.st)
                   ELSE fail("Can only subtract number types")
               [] op = "Plus" ->
                   IF both THEN Ok(NumberV(left.n + right.n), r.st)
                   ELSE IF left.t = "String" /\ right.t = "String"
                        THEN Ok(StringV(left.s \o right.s), r.st)
                        ELSE fail("Can only add number + number or concatenate string + string")
               [] op = "Star" ->
                   IF both THEN Ok(NumberV(left.n * right.n), r.st)
                   ELSE fail("Can only multiply number types")
               [] op = "Slash" ->
                   IF both THEN Ok(F64_div(left, right), r.st)
                   ELSE fail("Can only divide number types")
               [] op = "Greater" ->
                   IF both THEN Ok(BooleanV(left.n > right.n), r.st)
                   ELSE fail("Can only compare number types with >")
               [] op = "GreaterEqual" ->
                   IF both THEN Ok(BooleanV(left.n >= right.n), r.st)
                   ELSE fail("Can only compare number types with >=")
               [] op = "Less" ->
                   IF both THEN Ok(BooleanV(left.n < right.n), r.st)
                   ELSE fail("Can only compare number types with <")
               [] op = "LessEqual" ->
                   IF both THEN Ok(BooleanV(left.n <= right.n), r.st)
                   ELSE fail("Can only compare number types with <=")
               [] op = "EqualEqual" -> Ok(BooleanV(LoxObject_eq(left, right)), r.st)
               [] op = "BangEqual" -> Ok(BooleanV(~LoxObject_eq(left, right)), r.st)
               [] OTHER -> fail("Cannot use token " \o e.operator.lexeme
                                \o " for binary operation")

evaluate_unary(e, s) ==
    LET r == evaluate(e.rhs, s)
        op == e.operator.token_type.tt
    IN  IF ~r.ok THEN r
        ELSE CASE op = "Bang" -> Ok(BooleanV(~is_truthy(r.val)), r.st)
               [] op = "Minus" ->
                   IF r.val.t = "Number"
                   THEN Ok(NumberV(0 - r.val.n), r.st)
                   ELSE Err(RuntimeError_new(e.operator,
                              "Unary '-' can only be applied to numbers."), r.st)
               [] OTHER -> Err(RuntimeError_new(e.operator,
                              "token '" \o e.operator.lexeme
                              \o "' cannot be used as unary"), r.st)

\* evaluate_logical_expression without the short circuit: the right operand
\* is evaluated before the left one decides.
evaluate_logical_expression_eager(e, s) ==
    LET left == evaluate(e.lhs, s)
        right == evaluate(e.rhs, left.st)
    IN  IF ~left.ok THEN left
        ELSE IF ~right.ok THEN right
        ELSE IF (e.operator.token_type.tt = "Or" /\ is_truthy(left.val))
                \/ ~is_truthy(left.val)
             THEN Ok(left.val, right.st)
             ELSE right

evaluate_logical_expression(e, s) ==
    LET left == evaluate(e.lhs, s)
    IN  IF ~left.ok THEN left
        ELSE IF (e.operator.token_type.tt = "Or" /\ is_truthy(left.val))
                \/ ~is_truthy(left.val)
             THEN Ok(left.val, left.st)
             ELSE evaluate(e.rhs, left.st)

evaluate_assignment(e, s) ==
    LET value == evaluate(e.expr, s)
        a == Environment_assign(value.st.env, e.variable, value.val)
        s1 == Observe([value.st EXCEPT !.env = a.env],
                      [ev |-> "assign", name |-> e.variable.lexeme])
    IN  IF ~value.ok THEN value
        ELSE IF ~a.ok THEN Err(a.err, s1)
        ELSE Ok(value.val, s1)

\* The loop, were the arguments evaluated from the last to the first.
evaluate_args_right_to_left(args, i, args_evaluated, s) ==
    IF i > Len(args) THEN Ok(args_evaluated, s)
    ELSE LET a == evaluate(args[Len(args) + 1 - i], s)
         IN  IF ~a.ok THEN a
             ELSE evaluate_args(args, i + 1, << a.val >> \o args_evaluated,
                                a.st)

\* The loop that evaluates the arguments of a call from left to right.
evaluate_args(args, i, args_evaluated, s) ==
    IF i > Len(args) THEN Ok(args_evaluated, s)
    ELSE LET a == evaluate(args[i], s)
         IN  IF ~a.ok THEN a
             ELSE evaluate_args(args, i + 1, Append(args_evaluated, a.val), a.st)

\* Clock::call and PrintEnv::call (callable.rs).  The clock shows whole
\* seconds; print_env prints the environment, kept here as it is (the order
\* in which a HashMap is printed is not fixed).
Clock_call(s) == [val |-> NumberV(s.now), st |-> s]
PrintEnv_call(s) ==
    [val |-> NilV, st |-> [s EXCEPT !.stdout = Append(@, [env |-> s.env])]]

arity_error(closing_paren, arity, len, s) ==
    Err(RuntimeError_new(closing_paren,
            "Expect " \o fmt_usize(arity) \o " arguments but got "
            \o fmt_usize(len)), s)

evaluate_call_expr(e, s) ==
    LET c == evaluate(e.callee, s)
        a == evaluate_args(e.args, 1, << >>, c.st)
        callee == c.val
        len == Len(e.args)
    IN  IF ~c.ok THEN c
        ELSE IF ~a.ok THEN a
        ELSE IF callee.t = "Function"
             THEN IF len # LoxFunction_arity(callee)
                  THEN arity_error(e.closing_paren, LoxFunction_arity(callee), len, a.st)
                  ELSE LET r == LoxFunction_call(callee, a.st, a.val)
                       IN  Ok(r.val, r.st)
        ELSE IF callee.t = "Clock"
             THEN IF len # Clock_arity
                  THEN arity_error(e.closing_paren, Clock_arity, len, a.st)
                  ELSE Ok(Clock_call(a.st).val, Clock_call(a.st).st)
        ELSE IF callee.t = "PrintEnv"
             THEN IF len # PrintEnv_arity
                  THEN arity_error(e.closing_paren, PrintEnv_arity, len, a.st)
                  ELSE Ok(PrintEnv_call(a.st).val, PrintEnv_call(a.st).st)
        ELSE Err(RuntimeError_new(e.closing_paren,
                    "Can only call functions and classes."), a.st)

\* Top level function for evaluating an expression.
evaluate(e, s0) ==
    LET s == Observe(s0, [ev |-> "evaluate", expr |-> e.k])
    IN  CASE e.k = "Binary"     -> evaluate_binary(e, s)
          [] e.k = "Grouping"   -> evaluate(e.expr, s)
          [] e.k = "Literal"    -> evaluate_literal(e, s)
          [] e.k = "Unary"      -> evaluate_unary(e, s)
          [] e.k = "Variable"   ->
                 LET g == Environment_get(s.env, e.name)
                 IN  IF g.ok THEN Ok(g.val, s) ELSE Err(g.err, s)
          [] e.k = "Assignment" -> evaluate_assignment(e, s)
          [] e.k = "Logical"    -> evaluate_logical_expression(e, s)
          [] e.k = "Call"       -> evaluate_call_expr(e, s)

(***************************************************************************)
(* LoxFunction::call: in a new scope, define the parameters, then execute  *)
(* the body until a statement yields a return value.                       *)
(***************************************************************************)
bind_params(params, args, i, s) ==
    IF i > Len(params) THEN s
    ELSE bind_params(params, args, i + 1,
             [s EXCEPT !.env = Environment_define(@, params[i].lexeme, args[i])])

call_body(body, i, s) ==
    IF i > Len(body) THEN [val |-> NilV, st |-> s]
    ELSE LET r == execute(body[i], s)
         IN  IF is_some(r.ret)
             THEN [val |-> unwrap(r.ret), st |-> r.st]
             ELSE call_body(body, i + 1, r.st)

LoxFunction_call(function, s, args) ==
    LET s1 == in_new_local_scope_add(
                  Observe(s, [ev |-> "call", name |-> function.name.lexeme]))
        s2 == bind_params(function.params, args, 1, s1)
        r  == call_body(function.body, 1, s2)
    IN  [val |-> r.val, st |-> in_new_local_scope_pop(r.st)]

(***************************************************************************)
(* Statements (interpreter.rs).                                            *)
(***************************************************************************)
expression_statement(stmt, s) ==
    LET r == evaluate(stmt.expr, s)
    IN  IF r.ok THEN Ok(<< >>, r.st) ELSE r

print_statement(stmt, s) ==
    LET res == evaluate(stmt.expr, s)
    IN  IF ~res.ok THEN res
        ELSE Ok(<< >>, Observe(
                 [res.st EXCEPT !.stdout = Append(@, [line |-> LoxObject_fmt(res.val)])],
                 [ev |-> "print"]))

variable_statement(stmt, s) ==
    LET r == IF is_some(stmt.initializer)
             THEN evaluate(unwrap(stmt.initializer), s)
             ELSE Ok(NilV, s)
    IN  IF ~r.ok THEN r
        ELSE Ok(<< >>, Observe(
                 [r.st EXCEPT !.env = Environment_define(@, stmt.name.lexeme, r.val)],
                 [ev |-> "define", name |-> stmt.name.lexeme]))

function_declaration_statement(stmt, s) ==
    Observe([s EXCEPT !.env = Environment_define(@, stmt.name.lexeme,
                                                 LoxFunction_from(stmt))],
            [ev |-> "define", name |-> stmt.name.lexeme])

return_statement(stmt, s) ==
    IF is_some(stmt.value)
    THEN LET r == evaluate(unwrap(stmt.value), s)
         IN  IF r.ok THEN Ok(Some(r.val), r.st) ELSE r
    ELSE Ok(None, s)

if_statement(stmt, s) ==
    LET c == evaluate(stmt.condition, s)
    IN  IF ~c.ok THEN c
        ELSE IF is_truthy(c.val)
             THEN LET r == execute(stmt.then_branch, c.st) IN Ok(r.ret, r.st)
        ELSE IF is_some(stmt.else_branch)
             THEN LET r == execute(unwrap(stmt.else_branch), c.st) IN Ok(r.ret, r.st)
        ELSE Ok(None, c.st)

\* One turn of the while loop: the condition, then the body.  A run that has
\* spent its MaxLoopIters iterations is cut short and marked.
while_statement(stmt, s) ==
    LET c == evaluate(stmt.condition, s)
    IN  IF ~c.ok THEN c
        ELSE IF ~is_truthy(c.val) THEN Ok(None, c.st)
        ELSE IF c.st.fuel = 0 THEN Ok(None, [c.st EXCEPT !.cut = TRUE])
        ELSE LET res == execute(stmt.body, [c.st EXCEPT !.fuel = @ - 1])
             IN  IF is_some(res.ret) THEN Ok(res.ret, res.st)
                 ELSE while_statement(stmt, res.st)

\* The loop of execute_block's closure without its early exit: a return
\* value is kept, and the statements after it are executed all the same.
block_body_runs_on(body, i, s) ==
    IF i > Len(body) THEN [ret |-> None, st |-> s]
    ELSE LET maybe_return == execute(body[i], s)
             rest == block_body(body, i + 1, maybe_return.st)
         IN  IF is_some(maybe_return.ret)
             THEN [ret |-> maybe_return.ret, st |-> rest.st]
             ELSE rest

\* The loop of execute_block's closure.
block_body(body, i, s) ==
    IF i > Len(body) THEN [ret |-> None, st |-> s]
    ELSE LET maybe_return == execute(body[i], s)
         IN  IF is_some(maybe_return.ret) THEN maybe_return
             ELSE block_body(body, i + 1, maybe_return.st)

\* The body runs on a clone of the interpreter, which is dropped when the
\* block ends: the error flag of self is the one it had before the block.
execute_block(stmt, s) ==
    LET r == block_body(stmt.body, 1, in_new_local_scope_add(s))
    IN  [ret |-> r.ret,
         st  |-> [in_new_local_scope_pop(r.st) EXCEPT !.had_error = s.had_error]]

\* Reports the error of a failed statement and yields no return value.
report(r) ==
    IF r.ok THEN [ret |-> r.val, st |-> r.st]
    ELSE [ret |-> None, st |-> ErrorReporter_error(r.st, r.err)]

execute(stmt, s0) ==
    LET s == Observe(s0, [ev |-> "execute", stmt |-> stmt.k])
    IN  CASE stmt.k = "Expression" ->
                 [ret |-> None, st |-> report(expression_statement(stmt, s)).st]
          [] stmt.k = "Print" ->
                 [ret |-> None, st |-> report(print_statement(stmt, s)).st]
          [] stmt.k = "VariableDeclaration" ->
                 [ret |-> None, st |-> report(variable_statement(stmt, s)).st]
          [] stmt.k = "Block" -> execute_block(stmt, s)
          [] stmt.k = "If" -> report(if_statement(stmt, s))
          [] stmt.k = "FunctionDeclaration" ->
                 [ret |-> None, st |-> function_declaration_statement(stmt, s)]
          [] stmt.k = "Return" -> report(return_statement(stmt, s))
          [] stmt.k = "While" -> report(while_statement(stmt, s))

(***************************************************************************)
(* Interpreter::interpret: a fresh environment, then every statement of    *)
(* the program in order.                                                   *)
(***************************************************************************)
Interpreter_new(now) ==
    [env |-> Environment_new, had_error |-> FALSE, stdout |-> << >>,
     stderr |-> << >>, now |-> now, fuel |-> MaxLoopIters, cut |-> FALSE,
     trace |-> << >>]

(***************************************************************************)
(* The scanner (scanner.rs).                                               *)
(*                                                                         *)
(* A source is a sequence of characters.  A character is a string: an      *)
(* ASCII character is the string of that one character, and a character    *)
(* that UTF-8 encodes in more than one byte is written as its code point   *)
(* ("U+00E9").  String::len counts bytes and chars().nth(n) counts         *)
(* characters, and the scanner uses both.                                  *)
(*                                                                         *)
(* The Scanner is a record of its fields; lox is the Lox its reference     *)
(* points to.  A failed expect() aborts the process: panicked is set and   *)
(* nothing more is done.                                                   *)
(***************************************************************************)
NUL == "U+0000"
EAcute == "U+00E9"

\* char::len_utf8 of the characters of the model.
len_utf8(c) == IF Len(c) = 1 THEN 1 ELSE 2

RECURSIVE String_len(_)
String_len(chars) ==
    IF chars = << >> THEN 0
    ELSE len_utf8(Head(chars)) + String_len(Tail(chars))

\* The characters of an ASCII string.
Chars(str) == [i \in 1..Len(str) |-> SubSeq(str, i, i)]

\* collect::<String>() of an iterator of characters.
RECURSIVE collect(_)
collect(chars) ==
    IF chars = << >> THEN "" ELSE Head(chars) \o collect(Tail(chars))

\* skip(n).take(m) of an iterator of characters.
skip_take(chars, n, m) ==
    IF n >= Len(chars) \/ m <= 0 THEN << >>
    ELSE SubSeq(chars, n + 1, IF n + m < Len(chars) THEN n + m ELSE Len(chars))

strip_quotes(s) == skip_take(s, 1, String_len(s) - 2)

Digits == {Digit(d) : d \in 0..9}
Letters == {SubSeq("abcdefghijklmnopqrstuvwxyzABCDEFGHIJKLMNOPQRSTUVWXYZ_", i, i)
              : i \in 1..53}

is_digit(c) == c \in Digits
is_alpha(l) == l \in Letters
is_alpha_numeric(c) == is_alpha(c) \/ is_digit(c)

keywords ==
    [and |-> "And", class |-> "Class", else |-> "Else", false |-> "False",
     for |-> "For", fun |-> "Fun", if |-> "If", nil |-> "Nil", or |-> "Or",
     print |-> "Print", return |-> "Return", super |-> "Super",
     this |-> "This", true |-> "True", var |-> "Var", while |-> "While"]

\* str::parse::<f64> of a lexeme the scanner collected: digits, and maybe a
\* dot and more digits.  A value with a fraction is kept as the quotient of
\* its digits by the power of ten.
DigitValue(c) == CHOOSE d \in 0..9 : Digit(d) = c

RECURSIVE Decimal(_, _)
Decimal(chars, acc) ==
    IF chars = << >> THEN acc
    ELSE Decimal(Tail(chars), 10 * acc + DigitValue(Head(chars)))

RECURSIVE Pow10(_)
Pow10(k) == IF k = 0 THEN 1 ELSE 10 * Pow10(k - 1)

parse_f64(chars) ==
    LET dots == {i \in 1..Len(chars) : chars[i] = "."}
    IN  IF dots = {}
        THEN TTNumber(Decimal(chars, 0))
        ELSE LET d == CHOOSE i \in dots : TRUE
                 whole == SubSeq(chars, 1, d - 1)
                 frac == SubSeq(chars, d + 1, Len(chars))
             IN  IF Decimal(frac, 0) = 0
                 THEN TTNumber(Decimal(whole, 0))
                 ELSE [tt |-> "Number",
                       quot |-> << Decimal(whole \o frac, 0), Pow10(Len(frac)) >>]

\* Lox::error (lox.rs): a static error with no location.
Lox_new == [had_error |-> FALSE, had_runtime_error |-> FALSE, stderr |-> << >>]

Lox_static_error(self, line, location, msg) ==
    [self EXCEPT !.stderr = Append(@, [line |-> line, location |-> location,
                                      msg |-> msg]),
                !.had_error = TRUE]

Lox_error(self, line, msg) == Lox_static_error(self, line, "", msg)

Scanner_new(source, l) ==
    [lox |-> l, source |-> source, tokens |-> << >>, start |-> 0,
     current |-> 0, line |-> 1, panicked |-> FALSE]

Scanner_is_at_end(sc) == sc.current >= String_len(sc.source)

\* chars().nth(n): None past the last character.
nth(chars, n) == IF n < Len(chars) THEN Some(chars[n + 1]) ELSE None

\* Returns the scanner and the character; a missing character is a panic.
Scanner_advance(sc) ==
    LET c == nth(sc.source, sc.current)
    IN  IF is_some(c)
        THEN [sc |-> [sc EXCEPT !.current = @ + 1], c |-> unwrap(c)]
        ELSE [sc |-> [sc EXCEPT !.current = @ + 1, !.panicked = TRUE], c |-> NUL]

\* Returns the character, or None where the expect() panics.
peek_n_characters(sc, n) ==
    IF sc.current + n >= String_len(sc.source)
    THEN Some(NUL)
    ELSE nth(sc.source, sc.current + n)

current_char(sc) == peek_n_characters(sc, 0)
next_char(sc) == peek_n_characters(sc, 1)

get_current_lexeme(sc) == skip_take(sc.source, sc.start, sc.current - sc.start)

add_token(sc, token_type) ==
    [sc EXCEPT !.tokens = Append(@, Token(token_type,
                                          collect(get_current_lexeme(sc)),
                                          sc.line))]

Panic(sc) == [sc EXCEPT !.panicked = TRUE]

\* Returns the scanner and whether the character was found and consumed.
Scanner_advance_on(sc, expected) ==
    IF Scanner_is_at_end(sc) THEN [sc |-> sc, found |-> FALSE]
    ELSE IF ~is_some(current_char(sc)) THEN [sc |-> Panic(sc), found |-> FALSE]
    ELSE IF unwrap(current_char(sc)) # expected THEN [sc |-> sc, found |-> FALSE]
    ELSE [sc |-> Scanner_advance(sc).sc, found |-> TRUE]

\* while self.current_char() != '\n' && !self.is_at_end() { self.advance(); }
RECURSIVE skip_comment(_)
skip_comment(sc) ==
    IF sc.panicked THEN sc
    ELSE IF ~is_some(current_char(sc)) THEN Panic(sc)
    ELSE IF unwrap(current_char(sc)) # "\n" /\ ~Scanner_is_at_end(sc)
         THEN skip_comment(Scanner_advance(sc).sc)
         ELSE sc

\* The loop of string(): up to the closing quote or the end of the source.
RECURSIVE string_body(_)
string_body(sc) ==
    IF sc.panicked THEN sc
    ELSE IF ~is_some(current_char(sc)) THEN Panic(sc)
    ELSE IF unwrap(current_char(sc)) # "\"" /\ ~Scanner_is_at_end(sc)
         THEN string_body(Scanner_advance(
                  IF unwrap(current_char(sc)) = "\n"
                  THEN [sc EXCEPT !.line = @ + 1] ELSE sc).sc)
         ELSE sc

Scanner_string(sc0) ==
    LET sc == string_body(sc0)
    IN  IF sc.panicked THEN sc
        ELSE IF Scanner_is_at_end(sc)
             THEN [sc EXCEPT !.lox = Lox_error(@, sc.line, "Unterminated String")]
             ELSE LET closed == Scanner_advance(sc).sc
                  IN  IF closed.panicked THEN closed
                      ELSE add_token(closed,
                               TTString(collect(strip_quotes(get_current_lexeme(closed)))))

\* while is_digit(self.current_char()) { self.advance(); }
RECURSIVE digits(_)
digits(sc) ==
    IF sc.panicked THEN sc
    ELSE IF ~is_some(current_char(sc)) THEN Panic(sc)
    ELSE IF is_digit(unwrap(current_char(sc))) THEN digits(Scanner_advance(sc).sc)
    ELSE sc

Scanner_number(sc0) ==
    LET sc == digits(sc0)
        dot == /\ unwrap(current_char(sc)) = "."
               /\ is_some(next_char(sc))
               /\ is_digit(unwrap(next_char(sc)))
        sc2 == IF dot THEN digits(Scanner_advance(sc).sc) ELSE sc
    IN  IF sc.panicked THEN sc
        ELSE IF unwrap(current_char(sc)) = "." /\ ~is_some(next_char(sc))
             THEN Panic(sc)
        ELSE IF sc2.panicked THEN sc2
        ELSE add_token(sc2, parse_f64(get_current_lexeme(sc2)))

\* while is_alpha_numeric(self.current_char()) { self.advance(); }
RECURSIVE alpha_numerics(_)
alpha_numerics(sc) ==
    IF sc.panicked THEN sc
    ELSE IF ~is_some(current_char(sc)) THEN Panic(sc)
    ELSE IF is_alpha_numeric(unwrap(current_char(sc)))
         THEN alpha_numerics(Scanner_advance(sc).sc)
    ELSE sc

identifier_or_keyword(sc0) ==
    LET sc == alpha_numerics(sc0)
        lexeme == collect(get_current_lexeme(sc))
    IN  IF sc.panicked THEN sc
        ELSE IF lexeme \in DOMAIN keywords
             THEN add_token(sc, TT(keywords[lexeme]))
             ELSE add_token(sc, TT("Identifier"))

SingleCharTokens ==
    [c \in {"(", ")", "{", "}", ",", ".", "-", "+", ";", "*"} |->
        CASE c = "(" -> "LeftParen"  [] c = ")" -> "RightParen"
          [] c = "{" -> "LeftBrace"  [] c = "}" -> "RightBrace"
          [] c = "," -> "Comma"      [] c = "." -> "Dot"
          [] c = "-" -> "Minus"      [] c = "+" -> "Plus"
          [] c = ";" -> "SemiColon"  [] c = "*" -> "Star"]

\* The four arms of scan_token that look one character ahead for '='.
OneOrTwoCharTokens ==
    [c \in {"!", "=", "<", ">"} |->
        CASE c = "!" -> [two |-> "BangEqual", one |-> "Bang"]
          [] c = "=" -> [two |-> "EqualEqual", one |-> "Equal"]
          [] c = "<" -> [two |-> "LessEqual", one |-> "Less"]
          [] c = ">" -> [two |-> "GreaterEqual", one |-> "Greater"]]

one_or_two(sc, c) ==
    LET a == Scanner_advance_on(sc, "=")
    IN  IF a.sc.panicked THEN a.sc
        ELSE IF a.found THEN add_token(a.sc, TT(OneOrTwoCharTokens[c].two))
        ELSE add_token(a.sc, TT(OneOrTwoCharTokens[c].one))

scan_token(sc0) ==
    LET adv == Scanner_advance(sc0)
        sc == adv.sc
        c == adv.c
    IN  IF sc.panicked THEN sc
        ELSE CASE c \in DOMAIN SingleCharTokens ->
                      add_token(sc, TT(SingleCharTokens[c]))
               [] c \in DOMAIN OneOrTwoCharTokens ->
                      one_or_two(sc, c)
               [] c = "/" ->
                      LET a == Scanner_advance_on(sc, "/")
                      IN  IF a.sc.panicked THEN a.sc
                          ELSE IF a.found THEN skip_comment(a.sc)
                          ELSE add_token(a.sc, TT("Slash"))
               [] c \in {" ", "\r", "\t"} -> sc
               [] c = "\n" -> [sc EXCEPT !.line = @ + 1]
               [] c = "\"" -> Scanner_string(sc)
               [] is_digit(c) -> Scanner_number(sc)
               [] is_alpha(c) -> identifier_or_keyword(sc)
               [] OTHER -> [sc EXCEPT !.lox = Lox_error(@, sc.line,
                                                        "Unexpected Character.")]

\* One iteration of the loop of scan_tokens.
scan_tokens_step(sc) == scan_token([sc EXCEPT !.start = sc.current])

\* The end of scan_tokens: the Eof token.
scan_tokens_end(sc) ==
    [sc EXCEPT !.tokens = Append(@, Token(TT("Eof"), "", sc.line))]

\* The loop of scan_tokens, run to its end or to the panic.
RECURSIVE scan_loop(_)
scan_loop(sc) ==
    IF sc.panicked \/ Scanner_is_at_end(sc) THEN sc
    ELSE scan_loop(scan_tokens_step(sc))

\* scan_tokens as one call: the scanner it leaves behind.
scan_tokens(sc) ==
    LET end == scan_loop(sc)
    IN  IF end.panicked THEN end ELSE scan_tokens_end(end)

\* The tokens scan_tokens returns for an ASCII source.
Tokens(str) == scan_tokens(Scanner_new(Chars(str), Lox_new)).tokens

(***************************************************************************)
(* The parser (parser.rs): recursive descent over the token list.  The     *)
(* Parser is a record of its fields, threaded through one operator per     *)
(* method; a ParseResult is a record with an ok flag.  The ErrorReporter   *)
(* of the parser keeps, besides its flag, the errors it printed.           *)
(***************************************************************************)
\* The limit on parameters and arguments.
MaxArgs == 255

POk(v, p) == [ok |-> TRUE, val |-> v, p |-> p]
PErr(e, p) == [ok |-> FALSE, err |-> e, p |-> p]

\* ParseError (error/parse_error.rs): the variant, the token of its context
\* and, for ExpectedDifferentToken, the token type that was expected.
ParseError(kind, token, expected) ==
    [kind |-> kind, token |-> token, expected |-> expected]

ErrorReporter_new == [had_error |-> FALSE, errors |-> << >>]

Parser_new(tokens, error_reporter) ==
    [tokens |-> tokens, current |-> 0, error_reporter |-> error_reporter,
     depth |-> 0]

\* self.error_reporter.error(e)
Parser_error(p, e) ==
    [p EXCEPT !.error_reporter =
                  [had_error |-> TRUE, errors |-> Append(@.errors, e)]]

current_token(p) == p.tokens[p.current + 1]
previous_token(p) == p.tokens[p.current]
Parser_is_at_end(p) == current_token(p).token_type.tt = "Eof"
err_ctx(p) == current_token(p)

current_token_is_a(p, tt) ==
    IF Parser_is_at_end(p) THEN FALSE ELSE current_token(p).token_type.tt = tt

\* Returns the parser; the token advance returns is previous_token of it.
Parser_advance(p) ==
    IF ~Parser_is_at_end(p) THEN [p EXCEPT !.current = @ + 1] ELSE p

\* Returns the parser and whether it advanced.
advance_on_any_of(p, token_types) ==
    IF \E tt \in token_types : current_token_is_a(p, tt)
    THEN [p |-> Parser_advance(p), found |-> TRUE]
    ELSE [p |-> p, found |-> FALSE]

advance_on(p, token_type) == advance_on_any_of(p, {token_type})

advance_on_or_err(p, tt) ==
    IF current_token_is_a(p, tt)
    THEN POk(previous_token(Parser_advance(p)), Parser_advance(p))
    ELSE PErr(ParseError("ExpectedDifferentToken", err_ctx(p), tt), p)

\* The keywords at which synchronize stops.
SynchronizeAt == {"Class", "For", "Fun", "If", "Return", "Var", "While"}

RECURSIVE synchronize_loop(_)
synchronize_loop(p) ==
    IF Parser_is_at_end(p) THEN p
    ELSE IF previous_token(p).token_type.tt = "SemiColon"
            \/ current_token(p).token_type.tt \in SynchronizeAt
         THEN p
         ELSE synchronize_loop(Parser_advance(p))

synchronize(p) == synchronize_loop(Parser_advance(p))

\* The ? operator on a ParseResult: the rest of the method runs on an Ok, an
\* Err is returned at once.
Try(r, rest(_)) == IF r.ok THEN rest(r) ELSE r

RECURSIVE parse_item(_), declaration(_), function_declaration(_),
          more_params_step(_, _), more_params(_, _, _), var_declaration(_), statement(_),
          for_statement(_), Parser_while_statement(_),
          Parser_return_statement(_), Parser_if_statement(_),
          block_statement(_), block_items(_), Parser_expression_statement(_),
          expression(_), assignment(_), binary_level(_, _),
          binary_loop(_, _, _), unary(_), call(_), call_loop(_, _),
          finish_call(_, _), more_args_step(_),
          more_args(_, _), primary(_)

\* The levels, were the operators of term and factor exchanged.
LevelsExchanged ==
    [or         |-> [ops |-> {"Or"}, node |-> "Logical", next |-> "and"],
     and        |-> [ops |-> {"And"}, node |-> "Logical", next |-> "equality"],
     equality   |-> [ops |-> {"BangEqual", "EqualEqual"}, node |-> "Binary",
                     next |-> "comparison"],
     comparison |-> [ops |-> {"GreaterEqual", "Greater", "LessEqual", "Less"},
                     node |-> "Binary", next |-> "term"],
     term       |-> [ops |-> {"Slash", "Star"}, node |-> "Binary",
                     next |-> "factor"],
     factor     |-> [ops |-> {"Plus", "Minus"}, node |-> "Binary",
                     next |-> "unary"]]

\* The binary levels of the grammar, from the loosest: the operators of the
\* level, the node it builds and the level below it.
Levels ==
    [or         |-> [ops |-> {"Or"}, node |-> "Logical", next |-> "and"],
     and        |-> [ops |-> {"And"}, node |-> "Logical", next |-> "equality"],
     equality   |-> [ops |-> {"BangEqual", "EqualEqual"}, node |-> "Binary",
                     next |-> "comparison"],
     comparison |-> [ops |-> {"GreaterEqual", "Greater", "LessEqual", "Less"},
                     node |-> "Binary", next |-> "term"],
     term       |-> [ops |-> {"Plus", "Minus"}, node |-> "Binary",
                     next |-> "factor"],
     factor     |-> [ops |-> {"Slash", "Star"}, node |-> "Binary",
                     next |-> "unary"]]

\* primary -> IDENT | ( expression ) | true | false | nil | STRING | NUMBER
primary(p) ==
    IF advance_on(p, "Identifier").found
    THEN LET q == advance_on(p, "Identifier").p
         IN  POk(VariableExpr(previous_token(q)), q)
    ELSE IF advance_on(p, "LeftParen").found
    THEN Try(expression(advance_on(p, "LeftParen").p), LAMBDA expr :
         Try(advance_on_or_err(expr.p, "RightParen"), LAMBDA close :
         POk(GroupingExpr(expr.val), close.p)))
    ELSE IF advance_on_any_of(p, {"True", "False", "Nil"}).found
    THEN LET q == advance_on_any_of(p, {"True", "False", "Nil"}).p
         IN  POk(LiteralExpr(previous_token(q)), q)
    ELSE IF current_token(p).token_type.tt \in {"String", "Number"}
    THEN POk(LiteralExpr(previous_token(Parser_advance(p))), Parser_advance(p))
    ELSE PErr(ParseError("ExpectedExpression", err_ctx(p), ""), p)

\* One iteration of while self.advance_on(Comma) { .. } in finish_call, on the
\* arguments and the parser so far; the loop has ended on an Err and where no
\* comma follows.
more_args_step(r) ==
    IF ~r.ok THEN r
    ELSE IF ~advance_on(r.p, "Comma").found THEN r
    ELSE LET q == advance_on(r.p, "Comma").p
         IN  Try(expression(IF Len(r.val) >= MaxArgs
                            THEN Parser_error(q,
                                     ParseError("TooManyFunctionArguments",
                                                err_ctx(q), ""))
                            ELSE q),
                 LAMBDA arg : POk(Append(r.val, arg.val), arg.p))

\* The arguments after the first: the loop run for n iterations, which ends
\* it when every iteration takes a comma of the n tokens.
more_args(r, n) ==
    IF n <= 1 THEN more_args_step(r)
    ELSE LET half == more_args(r, n \div 2)
         IN  IF half.ok THEN more_args(half, n - n \div 2) ELSE half

finish_call(callee, p) ==
    Try(IF current_token_is_a(p, "RightParen") THEN POk(<< >>, p)
        ELSE Try(expression(p),
                 LAMBDA first : more_args(POk(<< first.val >>, first.p),
                                          Len(p.tokens))),
        LAMBDA args :
    Try(advance_on_or_err(args.p, "RightParen"), LAMBDA closing_paren :
    POk(CallExpr(callee, closing_paren.val, args.val), closing_paren.p)))

call_loop(expr, p) ==
    IF advance_on(p, "LeftParen").found
    THEN Try(finish_call(expr, advance_on(p, "LeftParen").p),
             LAMBDA c : call_loop(c.val, c.p))
    ELSE POk(expr, p)

call(p) == Try(primary(p), LAMBDA expr : call_loop(expr.val, expr.p))

\* unary -> ( ! | - ) unary | call
unary(p) ==
    IF advance_on_any_of(p, {"Bang", "Minus"}).found
    THEN LET q == advance_on_any_of(p, {"Bang", "Minus"}).p
         IN  Try(unary(q), LAMBDA right :
             POk(UnaryExpr(previous_token(q), right.val), right.p))
    ELSE call(p)

\* while self.advance_on_any_of(ops) { operator; right; expr = node }
binary_loop(level, expr, p) ==
    IF advance_on_any_of(p, Levels[level].ops).found
    THEN LET q == advance_on_any_of(p, Levels[level].ops).p
         IN  Try(binary_level(Levels[level].next, q), LAMBDA right :
             binary_loop(level,
                 [k |-> Levels[level].node, lhs |-> expr,
                  operator |-> previous_token(q), rhs |-> right.val],
                 right.p))
    ELSE POk(expr, p)

binary_level(level, p) ==
    IF level = "unary" THEN unary(p)
    ELSE Try(binary_level(Levels[level].next, p),
             LAMBDA expr : binary_loop(level, expr.val, expr.p))

Parser_or(p) == binary_level("or", p)
Parser_and(p) == binary_level("and", p)
equality(p) == binary_level("equality", p)
comparison(p) == binary_level("comparison", p)
term(p) == binary_level("term", p)
factor(p) == binary_level("factor", p)

\* assignment, were the invalid target returned as the error of the
\* expression instead of being reported.
assignment_raising(p) ==
    Try(Parser_or(p), LAMBDA expr :
        LET eq == advance_on(expr.p, "Equal")
        IN  IF ~eq.found THEN POk(expr.val, expr.p)
            ELSE Try(assignment(eq.p), LAMBDA value :
                 IF expr.val.k = "Variable"
                 THEN POk(AssignmentExpr(expr.val.name, value.val), value.p)
                 ELSE PErr(ParseError("InvalidAssignmentTarget",
                                      previous_token(eq.p), ""),
                           value.p)))

\* assignment -> some_var = assignment | or
assignment(p) ==
    Try(Parser_or(p), LAMBDA expr :
        LET eq == advance_on(expr.p, "Equal")
        IN  IF ~eq.found THEN POk(expr.val, expr.p)
            ELSE Try(assignment(eq.p), LAMBDA value :
                 IF expr.val.k = "Variable"
                 THEN POk(AssignmentExpr(expr.val.name, value.val), value.p)
                 ELSE POk(expr.val,
                          Parser_error(value.p,
                              ParseError("InvalidAssignmentTarget",
                                         previous_token(eq.p), "")))))

expression(p) == assignment(p)

Parser_expression_statement(p) ==
    Try(expression(p), LAMBDA expr :
    Try(advance_on_or_err(expr.p, "SemiColon"), LAMBDA semi :
    POk(ExpressionStmt(expr.val), semi.p)))

\* if let Some(stmt) = self.parse_item() { statements.push(stmt) }, on the
\* statements and the parser parse_item leaves.
push_item(statements, item) ==
    [p |-> item.p,
     statements |-> IF is_some(item.stmt)
                    THEN Append(statements, unwrap(item.stmt))
                    ELSE statements]

\* while !self.is_at_end() && !self.current_token_is_a(RightBrace) { .. }
block_items(self) ==
    IF ~Parser_is_at_end(self.p) /\ ~current_token_is_a(self.p, "RightBrace")
    THEN block_items(push_item(self.statements, parse_item(self.p)))
    ELSE POk(self.statements, self.p)

block_statement(p) ==
    Try(block_items([p |-> [p EXCEPT !.depth = @ + 1], statements |-> << >>]),
        LAMBDA items :
    Try(advance_on_or_err(items.p, "RightBrace"), LAMBDA close :
    POk(BlockStmt(items.val), [close.p EXCEPT !.depth = @ - 1])))

Parser_if_statement(p) ==
    Try(advance_on_or_err(p, "LeftParen"), LAMBDA open :
    Try(expression(open.p), LAMBDA condition :
    Try(advance_on_or_err(condition.p, "RightParen"), LAMBDA close :
    Try(statement(close.p), LAMBDA then_branch :
        LET else_kw == advance_on(then_branch.p, "Else")
        IN  IF ~else_kw.found
            THEN POk(IfStmt(condition.val, then_branch.val, None),
                     then_branch.p)
            ELSE Try(statement(else_kw.p), LAMBDA else_branch :
                 POk(IfStmt(condition.val, then_branch.val,
                            Some(else_branch.val)),
                     else_branch.p))))))

Parser_return_statement(p) ==
    Try(IF ~current_token_is_a(p, "SemiColon")
        THEN Try(expression(p), LAMBDA e : POk(Some(e.val), e.p))
        ELSE POk(None, p),
        LAMBDA value :
    Try(advance_on_or_err(value.p, "SemiColon"), LAMBDA semi :
    POk(ReturnStmt(previous_token(p), value.val), semi.p)))

Parser_while_statement(p) ==
    Try(advance_on_or_err(p, "LeftParen"), LAMBDA open :
    Try(expression(open.p), LAMBDA condition :
    Try(advance_on_or_err(condition.p, "RightParen"), LAMBDA close :
    Try(statement(close.p), LAMBDA body :
    POk(WhileStmt(condition.val, body.val), body.p)))))

\* The desugaring at the end of for_statement, from the optional initializer,
\* condition and increment and the body: the increment goes last in the
\* body, a missing condition is the literal true, the body becomes a while
\* loop, and an initializer goes before it in a block.
desugar_for_always_block(initializer, condition, increment, body) ==
    LET body1 == BlockStmt(<< body >> \o
                     (IF is_some(increment)
                      THEN << ExpressionStmt(unwrap(increment)) >> ELSE << >>))
        cond == IF is_some(condition) THEN unwrap(condition)
                ELSE LiteralExpr(Token(TT("True"), "true", 0))
        body2 == WhileStmt(cond, body1)
    IN  BlockStmt((IF is_some(initializer) THEN << unwrap(initializer) >>
                   ELSE << >>) \o << body2 >>)

desugar_for(initializer, condition, increment, body) ==
    LET body1 == IF is_some(increment)
                 THEN BlockStmt(<< body, ExpressionStmt(unwrap(increment)) >>)
                 ELSE body
        cond == IF is_some(condition) THEN unwrap(condition)
                ELSE LiteralExpr(Token(TT("True"), "true", 0))
        body2 == WhileStmt(cond, body1)
    IN  IF is_some(initializer)
        THEN BlockStmt(<< unwrap(initializer), body2 >>)
        ELSE body2

\* Parses a for loop into the while loop it stands for.
for_statement(p) ==
    Try(advance_on_or_err(p, "LeftParen"), LAMBDA open :
    Try(IF advance_on(open.p, "SemiColon").found
        THEN POk(None, advance_on(open.p, "SemiColon").p)
        ELSE IF advance_on(open.p, "Var").found
        THEN Try(var_declaration(advance_on(open.p, "Var").p),
                 LAMBDA d : POk(Some(d.val), d.p))
        ELSE Try(Parser_expression_statement(open.p),
                 LAMBDA e : POk(Some(e.val), e.p)),
        LAMBDA initializer :
    Try(IF ~current_token_is_a(initializer.p, "SemiColon")
        THEN Try(expression(initializer.p), LAMBDA e : POk(Some(e.val), e.p))
        ELSE POk(None, initializer.p),
        LAMBDA condition :
    Try(advance_on_or_err(condition.p, "SemiColon"), LAMBDA semi :
    Try(IF ~current_token_is_a(semi.p, "RightParen")
        THEN Try(expression(semi.p), LAMBDA e : POk(Some(e.val), e.p))
        ELSE POk(None, semi.p),
        LAMBDA increment :
    Try(advance_on_or_err(increment.p, "RightParen"), LAMBDA close :
    Try(statement(close.p), LAMBDA body :
    POk(desugar_for(initializer.val, condition.val, increment.val, body.val),
        body.p))))))))

statement(p) ==
    IF advance_on(p, "If").found
    THEN Parser_if_statement(advance_on(p, "If").p)
    ELSE IF advance_on(p, "For").found
    THEN for_statement(advance_on(p, "For").p)
    ELSE IF advance_on(p, "While").found
    THEN Parser_while_statement(advance_on(p, "While").p)
    ELSE IF advance_on(p, "Return").found
    THEN Parser_return_statement(advance_on(p, "Return").p)
    ELSE IF advance_on(p, "LeftBrace").found
    THEN block_statement(advance_on(p, "LeftBrace").p)
    ELSE Parser_expression_statement(p)

var_declaration(p) ==
    Try(advance_on_or_err(p, "Identifier"), LAMBDA name :
    Try(IF advance_on(name.p, "Equal").found
        THEN Try(expression(advance_on(name.p, "Equal").p),
                 LAMBDA e : POk(Some(e.val), e.p))
        ELSE POk(None, name.p),
        LAMBDA initializer :
    Try(advance_on_or_err(initializer.p, "SemiColon"), LAMBDA semi :
    POk(VariableDeclarationStmt(name.val, initializer.val), semi.p))))

\* One iteration of while self.advance_on(Comma) { .. } in
\* function_declaration, on the parameters and the parser so far.
more_params_step(r, left_paren) ==
    IF ~r.ok THEN r
    ELSE IF ~advance_on(r.p, "Comma").found THEN r
    ELSE Try(advance_on_or_err(advance_on(r.p, "Comma").p, "Identifier"),
             LAMBDA param :
             POk(Append(r.val, param.val),
                 IF Len(r.val) + 1 >= MaxArgs
                 THEN Parser_error(param.p,
                          ParseError("TooManyFunctionArguments", left_paren, ""))
                 ELSE param.p))

\* The parameters after the first: the loop run for n iterations.
more_params(r, left_paren, n) ==
    IF n <= 1 THEN more_params_step(r, left_paren)
    ELSE LET half == more_params(r, left_paren, n \div 2)
         IN  IF half.ok THEN more_params(half, left_paren, n - n \div 2)
             ELSE half

function_declaration(p) ==
    Try(advance_on_or_err(p, "Identifier"), LAMBDA name :
    Try(advance_on_or_err(name.p, "LeftParen"), LAMBDA left_paren :
    Try(IF current_token_is_a(left_paren.p, "RightParen")
        THEN POk(<< >>, left_paren.p)
        ELSE Try(advance_on_or_err(left_paren.p, "Identifier"),
                 LAMBDA first :
                 more_params(POk(<< first.val >>, first.p), left_paren.val,
                             Len(p.tokens))),
        LAMBDA params :
    Try(advance_on_or_err(params.p, "RightParen"), LAMBDA close :
    Try(advance_on_or_err(close.p, "LeftBrace"), LAMBDA brace :
    Try(block_statement(brace.p), LAMBDA body :
    POk(FunctionDeclarationStmt(name.val, params.val, body.val.body),
        body.p)))))))

declaration(p) ==
    IF advance_on(p, "Fun").found
    THEN function_declaration(advance_on(p, "Fun").p)
    ELSE IF advance_on(p, "Var").found
    THEN var_declaration(advance_on(p, "Var").p)
    ELSE statement(p)

\* The closure of parse_item on the result of declaration: the statement if
\* one was parsed; after an error, the parser that reported it and
\* synchronized.
report_and_synchronize(d) ==
    IF d.ok THEN [stmt |-> Some(d.val), p |-> d.p]
    ELSE [stmt |-> None, p |-> synchronize(Parser_error(d.p, d.err))]

parse_item(p) == report_and_synchronize(declaration(p))

\* One iteration, were the error reported and synchronize not called.
parse_step_unsynchronized(self) ==
    LET d == declaration(self.p)
    IN  IF d.ok THEN push_item(self.statements, parse_item(self.p))
        ELSE [p |-> Parser_error(d.p, d.err), statements |-> self.statements]

\* One iteration of the loop of parse.
parse_step(self) == push_item(self.statements, parse_item(self.p))

(***************************************************************************)
(* The programs the interpreter is run on: syntax trees as the parser      *)
(* builds them, grouped in families.  Every program records its family and *)
(* the parameters it was built from beside its statements.                  *)
(***************************************************************************)
Op(tt, lexeme) == Token(TT(tt), lexeme, 1)
Var(name) == VariableExpr(Ident(name, 1))
Call(callee, args, line) == CallExpr(callee, Token(TT("RightParen"), ")", line), args)
Assign(name, expr) == AssignmentExpr(Ident(name, 1), expr)
Return(expr) == ReturnStmt(Op("Return", "return"), Some(expr))
ReturnNothing == ReturnStmt(Op("Return", "return"), None)
VarDecl(name, expr) == VariableDeclarationStmt(Ident(name, 1), Some(expr))
Fun(name, params, body) ==
    FunctionDeclarationStmt(Ident(name, 1),
                            [i \in 1..Len(params) |-> Ident(params[i], 1)], body)

\* The literal expression that evaluates to a value.
Lit(v) ==
    CASE v.t = "Number"  -> LiteralExpr(Token(TTNumber(v.n), fmt_f64(v.n), 1))
      [] v.t = "String"  -> LiteralExpr(Token(TTString(v.s), "\"" \o v.s \o "\"", 1))
      [] v.t = "Boolean" -> LiteralExpr(IF v.b THEN Op("True", "true")
                                              ELSE Op("False", "false"))
      [] v.t = "Nil"     -> LiteralExpr(Op("Nil", "nil"))

Numbers == {NumberV(n) : n \in 0..MaxNum}
LiteralValues ==
    {NilV, BooleanV(TRUE), BooleanV(FALSE), StringV(""), StringV("a")} \cup Numbers

\* fun f() {}  -- declared first in the programs that use a function value.
DeclF == Fun("f", << >>, << >>)

\* Operand values: every literal, a built-in and a user function.
Values == LiteralValues \cup {ClockV, LoxFunction_from(DeclF)}

\* The expression that yields an operand value.
Operand(v) ==
    CASE v.t = "Clock"    -> Var("clock")
      [] v.t = "Function" -> Var(v.name.lexeme)
      [] OTHER            -> Lit(v)

\* fun make() { var x = x0; fun get() { return x; } return get; }
\* var r = make()();
ClosurePrograms ==
    {[family |-> "closure", x0 |-> x0,
      stmts |-> << Fun("make", << >>,
                       << VarDecl("x", Lit(x0)),
                          Fun("get", << >>, << Return(Var("x")) >>),
                          Return(Var("get")) >>),
                   VarDecl("r", Call(Call(Var("make"), << >>, 2), << >>, 2)) >>]
     : x0 \in LiteralValues}

\* fun make() { var x = x0; fun inc() { x = x + 1; return x; } return inc; }
\* var c = make(); var r1 = c(); var r2 = c(); var r3 = c();
CounterPrograms ==
    {[family |-> "counter", x0 |-> x0,
      stmts |-> << Fun("make", << >>,
                       << VarDecl("x", Lit(x0)),
                          Fun("inc", << >>,
                              << ExpressionStmt(Assign("x",
                                     BinaryExpr(Var("x"), Op("Plus", "+"),
                                                Lit(NumberV(1))))),
                                 Return(Var("x")) >>),
                          Return(Var("inc")) >>),
                   VarDecl("c", Call(Var("make"), << >>, 2)),
                   VarDecl("r1", Call(Var("c"), << >>, 3)),
                   VarDecl("r2", Call(Var("c"), << >>, 4)),
                   VarDecl("r3", Call(Var("c"), << >>, 5)) >>]
     : x0 \in Numbers}


AssignS(name, v) == ExpressionStmt(Assign(name, Lit(v)))
\* s = 1;  -- the statement whose execution the global s shows.
Mark == AssignS("s", NumberV(1))
VarS0 == VarDecl("s", Lit(NumberV(0)))

\* Statements that raise a runtime error, one for each kind of error.
\*   u;   -"a";   "a" + 1;   1();   var a = u;   if (u) s = 1;   u = 1;
Failing ==
    [undefined   |-> ExpressionStmt(Var("u")),
     unary       |-> ExpressionStmt(UnaryExpr(Op("Minus", "-"), Lit(StringV("a")))),
     binary      |-> ExpressionStmt(BinaryExpr(Lit(StringV("a")), Op("Plus", "+"),
                                               Lit(NumberV(1)))),
     notcallable |-> ExpressionStmt(Call(Lit(NumberV(1)), << >>, 9)),
     vardecl     |-> VarDecl("a", Var("u")),
     ifcond      |-> IfStmt(Var("u"), Mark, None),
     printing    |-> PrintStmt(Var("u"))]

\* Where the failing statement stands, with s = 1; as the statement after it.
\*   top:      E; s = 1;
\*   block:    { E; s = 1; }
\*   loop:     while (s == 0) { E; s = 1; }
\*   function: fun f() { E; s = 1; } f();
InContext(context, E) ==
    CASE context = "top"      -> << E, Mark >>
      [] context = "block"    -> << BlockStmt(<< E, Mark >>) >>
      [] context = "loop"     ->
             << WhileStmt(BinaryExpr(Var("s"), Op("EqualEqual", "=="), Lit(NumberV(0))),
                          BlockStmt(<< E, Mark >>)) >>
      [] context = "function" ->
             << Fun("f", << >>, << E, Mark >>),
                ExpressionStmt(Call(Var("f"), << >>, 3)) >>

Contexts == {"top", "block", "loop", "function"}

\* var s = 0; followed by a failing statement in one of the contexts.
HaltPrograms ==
    {[family |-> "halt", error |-> e, context |-> c,
      stmts |-> << VarS0 >> \o InContext(c, Failing[e])]
     : e \in DOMAIN Failing, c \in Contexts}

\* fun f() {}  var t = !v;
TruthyPrograms ==
    {[family |-> "truthy", v |-> v,
      stmts |-> << DeclF, VarDecl("t", UnaryExpr(Op("Bang", "!"), Operand(v))) >>]
     : v \in Values}

LogicalOps == {Op("Or", "or"), Op("And", "and")}

\* fun f() {}  var r = a or b;   (or: a and b)
LogicalPrograms ==
    {[family |-> "logical", op |-> op.token_type.tt, a |-> a, b |-> b,
      stmts |-> << DeclF, VarDecl("r", LogicalExpr(Operand(a), op, Operand(b))) >>]
     : op \in LogicalOps, a \in Values, b \in Values}

\* Right operands with a side effect: an assignment, a call whose body
\* assigns, an undefined variable and a call of a number.
\*   s = 1     side()     u     1()
Effects ==
    [assignment  |-> Assign("s", Lit(NumberV(1))),
     call        |-> Call(Var("side"), << >>, 4),
     undefined   |-> Var("u"),
     notcallable |-> Call(Lit(NumberV(1)), << >>, 4)]

\* var s = 0;  fun f() {}  fun side() { s = 1; return true; }
\* var r = a or RHS;   (or: a and RHS)
ShortPrograms ==
    {[family |-> "short", op |-> op.token_type.tt, a |-> a, rhs |-> e,
      stmts |-> << VarS0, DeclF,
                   Fun("side", << >>, << Mark, Return(Lit(BooleanV(TRUE))) >>),
                   VarDecl("r", LogicalExpr(Operand(a), op, Effects[e])) >>]
     : op \in LogicalOps, a \in Values, e \in DOMAIN Effects}

\* (n = n + 1) < 2: a loop condition that counts its evaluations in n.
Counting ==
    BinaryExpr(GroupingExpr(Assign("n", BinaryExpr(Var("n"), Op("Plus", "+"),
                                                   Lit(NumberV(1))))),
               Op("Less", "<"), Lit(NumberV(2)))

\* Function bodies around a return statement R, each followed by s = 1;
\* wherever a statement can follow.
\*   plain:   R; s = 1;
\*   block:   { R; s = 1; } s = 1;
\*   then:    if (true) R; s = 1;
\*   else:    if (false) s = 1; else { R; s = 1; } s = 1;
\*   while:   while ((n = n + 1) < 2) { R; s = 1; } s = 1;
\*   nested:  while ((n = n + 1) < 2) { if (true) { { R; } s = 1; } s = 1; } s = 1;
Body(shape, R) ==
    CASE shape = "plain"  -> << R, Mark >>
      [] shape = "block"  -> << BlockStmt(<< R, Mark >>), Mark >>
      [] shape = "then"   -> << IfStmt(Lit(BooleanV(TRUE)), R, None), Mark >>
      [] shape = "else"   -> << IfStmt(Lit(BooleanV(FALSE)), Mark,
                                       Some(BlockStmt(<< R, Mark >>))), Mark >>
      [] shape = "while"  -> << WhileStmt(Counting, BlockStmt(<< R, Mark >>)), Mark >>
      [] shape = "nested" ->
             << WhileStmt(Counting,
                    BlockStmt(<< IfStmt(Lit(BooleanV(TRUE)),
                                        BlockStmt(<< BlockStmt(<< R >>), Mark >>),
                                        None),
                                 Mark >>)),
                Mark >>

Shapes == {"plain", "block", "then", "else", "while", "nested"}
LoopShapes == {"while", "nested"}

\* var s = 0;  var n = 0;  fun f() { <body around return;> }  var r = f();
ReturnNilPrograms ==
    {[family |-> "return_nil", shape |-> sh,
      stmts |-> << VarS0, VarDecl("n", Lit(NumberV(0))),
                   Fun("f", << >>, Body(sh, ReturnNothing)),
                   VarDecl("r", Call(Var("f"), << >>, 4)) >>]
     : sh \in Shapes}

\* var s = 0;  var n = 0;  fun f() { <body around return v;> }  var r = f();
EarlyPrograms ==
    {[family |-> "early", shape |-> sh, v |-> v,
      stmts |-> << VarS0, VarDecl("n", Lit(NumberV(0))),
                   Fun("f", << >>, Body(sh, Return(Lit(v)))),
                   VarDecl("r", Call(Var("f"), << >>, 4)) >>]
     : sh \in Shapes, v \in LiteralValues}

\* The callables of the arity programs, by the name they are bound to.
\*   fun f(a) { s = 1; }   fun g() { s = 1; }   clock   print_env
Callees == [f |-> 1, g |-> 0, clock |-> 0, print_env |-> 0]
ArgCounts == 0..2
Args(n) == [i \in 1..n |-> Lit(NumberV(i))]

\* var s = 0;  fun f(a) { s = 1; }  fun g() { s = 1; }
\* var r = callee(1, .., nargs);   with the closing paren on line 7
ArityPrograms ==
    {[family |-> "arity", callee |-> c, nargs |-> n,
      stmts |-> << VarS0, Fun("f", << "a" >>, << Mark >>),
                   Fun("g", << >>, << Mark >>),
                   VarDecl("r", Call(Var(c), Args(n), 7)) >>]
     : c \in DOMAIN Callees, n \in ArgCounts}

\* print(v);  -- a fresh program whose one statement calls the built-in.
BuiltinPrograms ==
    {[family |-> "builtin", v |-> v,
      stmts |-> << ExpressionStmt(Call(Var("print"), << Lit(v) >>, 1)) >>]
     : v \in LiteralValues}

\* The operators of evaluate_binary.
BinaryOps ==
    [Minus |-> "-", Plus |-> "+", Star |-> "*", Slash |-> "/", Greater |-> ">",
     GreaterEqual |-> ">=", Less |-> "<", LessEqual |-> "<=",
     EqualEqual |-> "==", BangEqual |-> "!="]

BinOp(op) == Op(op, BinaryOps[op])

\* fun f() {}  var r = a op b;
BinaryPrograms ==
    {[family |-> "binary", op |-> op, a |-> a, b |-> b,
      stmts |-> << DeclF,
                   VarDecl("r", BinaryExpr(Operand(a), BinOp(op), Operand(b))) >>]
     : op \in DOMAIN BinaryOps, a \in Values, b \in Values}

\* Operands that show when they are evaluated: an assignment to s, s itself,
\* nil for a value no arithmetic accepts, an undefined variable.
\*   order:       var s = 0;  var r = (s = 1) op s;
\*   check:       var s = 0;  var r = nil op (s = 1);
\*   left_fails:  var s = 0;  var r = u op (s = 1);
\*   right_fails: var s = 0;  var r = nil op u;
SetS == GroupingExpr(Assign("s", Lit(NumberV(1))))
OperandPairs ==
    [order       |-> << SetS, Var("s") >>,
     check       |-> << Lit(NilV), SetS >>,
     left_fails  |-> << Var("u"), SetS >>,
     right_fails |-> << Lit(NilV), Var("u") >>]

OperandPrograms ==
    {[family |-> "operands", op |-> op, case |-> c,
      stmts |-> << VarS0,
                   VarDecl("r", BinaryExpr(OperandPairs[c][1], BinOp(op),
                                           OperandPairs[c][2])) >>]
     : op \in DOMAIN BinaryOps, c \in DOMAIN OperandPairs}

\* s = s + e, in parentheses.
AddToS(e) ==
    GroupingExpr(Assign("s", BinaryExpr(Var("s"), Op("Plus", "+"), e)))

\* Calls whose callee and arguments show when they are evaluated.
\*   args_order:   f((s = s + 1), (s = s + s))
\*   callee_first: (s = f)(s, s)
\*   not_callable: 1((s = 1))
\*   arg_first:    1(u)
\*   arity:        f((s = 1))
\*   callee_fails: u((s = 1))
\*   arg_fails:    f(u, (s = 1))
Calls ==
    [args_order   |-> Call(Var("f"), << AddToS(Lit(NumberV(1))),
                                        AddToS(Var("s")) >>, 7),
     callee_first |-> Call(GroupingExpr(Assign("s", Var("f"))),
                           << Var("s"), Var("s") >>, 7),
     not_callable |-> Call(Lit(NumberV(1)), << SetS >>, 7),
     arg_first    |-> Call(Lit(NumberV(1)), << Var("u") >>, 7),
     arity        |-> Call(Var("f"), << SetS >>, 7),
     callee_fails |-> Call(Var("u"), << SetS >>, 7),
     arg_fails    |-> Call(Var("f"), << Var("u"), SetS >>, 7)]

\* var s = 0;  var x = 0;  var y = 0;  fun f(a, b) { x = a; y = b; }  CALL;
CallPrograms ==
    {[family |-> "call_order", case |-> c,
      stmts |-> << VarS0, VarDecl("x", Lit(NumberV(0))),
                   VarDecl("y", Lit(NumberV(0))),
                   Fun("f", << "a", "b" >>,
                       << ExpressionStmt(Assign("x", Var("a"))),
                          ExpressionStmt(Assign("y", Var("b"))) >>),
                   ExpressionStmt(Calls[c]) >>]
     : c \in DOMAIN Calls}

Programs ==
    CallPrograms \cup OperandPrograms \cup ClosurePrograms \cup CounterPrograms \cup HaltPrograms \cup TruthyPrograms
    \cup LogicalPrograms \cup ShortPrograms \cup ReturnNilPrograms
    \cup EarlyPrograms \cup ArityPrograms \cup BuiltinPrograms
    \cup BinaryPrograms

(***************************************************************************)
(* The state machine: Interpreter::interpret on one of the programs.       *)
(***************************************************************************)
Run(at, exit) == [at |-> at, exit |-> exit]

\* Lox::run is not running.
LoxUnused ==
    /\ lox = Lox_new
    /\ scanner = Scanner_new(<< >>, Lox_new)
    /\ parser = [p |-> Parser_new(<< >>, ErrorReporter_new), statements |-> << >>]
    /\ run = Run("none", None)

\* The Environment that is driven on its own is not in use here.
EnvUnused == environment = Environment_new /\ last = [op |-> "new"]

Init ==
    /\ program \in Programs
    /\ pc = 1
    /\ \E now \in 1..MaxClock : st = Interpreter_new(now)
    /\ EnvUnused
    /\ LoxUnused

\* One iteration of `for stmt in stmts.into_iter()`: the value execute
\* returns is dropped.
interpret_step ==
    /\ pc <= Len(program.stmts)
    /\ st' = execute(program.stmts[pc], st).st
    /\ pc' = pc + 1
    /\ UNCHANGED <<program, env_vars, lox_vars>>

Next == interpret_step

Spec == Init /\ [][Next]_vars

\* The run is over: interpret has returned.
Done == pc > Len(program.stmts)
\* The value a global variable holds, if any.
Global(name) == Scope_get(st.env.global, name)

(***************************************************************************)
(* The Environment on its own: a state machine whose actions are the       *)
(* methods of Environment (environment.rs) a caller can reach: define,     *)
(* assign, get, and the two halves of in_new_local_scope.  The variable    *)
(* last keeps the call that led to the state: the method, its arguments,   *)
(* the environment it was called on and what it returned.                  *)
(***************************************************************************)
\* Local scope layers the environment is driven to.
MaxDepth == 2

EnvNames == {"a", "b"}
EnvValues == {NumberV(1), StringV("x")}

Called(op, name, value, ok, err) ==
    [op |-> op, name |-> name, value |-> value, before |-> environment,
     ok |-> ok, err |-> err]

NoError == RuntimeError_new(Ident("", 0), "")

\* The interpreter is not running while the environment is driven.
InterpreterUnused ==
    /\ program = [family |-> "none", stmts |-> << >>]
    /\ pc = 1
    /\ st = Interpreter_new(1)

EnvInit ==
    /\ environment = Environment_new
    /\ last = [op |-> "new"]
    /\ InterpreterUnused
    /\ LoxUnused

EnvDefine ==
    \E name \in EnvNames, value \in EnvValues :
        /\ environment' = Environment_define(environment, name, value)
        /\ last' = Called("define", name, value, TRUE, NoError)
        /\ UNCHANGED <<interp_vars, lox_vars>>

EnvAssign ==
    \E name \in EnvNames, value \in EnvValues :
        LET a == Environment_assign(environment, Ident(name, 1), value)
        IN  /\ environment' = a.env
            /\ last' = Called("assign", name, value, a.ok,
                              IF a.ok THEN NoError ELSE a.err)
            /\ UNCHANGED <<interp_vars, lox_vars>>

EnvGet ==
    \E name \in EnvNames :
        LET g == Environment_get(environment, Ident(name, 1))
        IN  /\ environment' = environment
            /\ last' = Called("get", name, g.val, g.ok,
                              IF g.ok THEN NoError ELSE g.err)
            /\ UNCHANGED <<interp_vars, lox_vars>>

EnvAddScopeLayer ==
    /\ ScopeDepth(environment) < MaxDepth
    /\ environment' = add_scope_layer(environment)
    /\ last' = Called("add_scope_layer", "", NilV, TRUE, NoError)
    /\ UNCHANGED <<interp_vars, lox_vars>>

EnvPopScopeLayer ==
    /\ environment' = pop_scope_layer(environment).env
    /\ last' = Called("pop_scope_layer", "", NilV,
                      is_some(pop_scope_layer(environment).popped), NoError)
    /\ UNCHANGED <<interp_vars, lox_vars>>

EnvNext ==
    \/ EnvDefine
    \/ EnvAssign
    \/ EnvGet
    \/ EnvAddScopeLayer
    \/ EnvPopScopeLayer

EnvSpec == EnvInit /\ [][EnvNext]_vars

(***************************************************************************)
(* Lox::run (lox.rs): the source is scanned, the tokens are parsed, the    *)
(* run exits with 65 if a static error was reported, and the statements    *)
(* are interpreted otherwise.  The steps of the state machine are the      *)
(* iterations of the three loops (scan_tokens, parse, interpret) and the   *)
(* code between them; run.at names the place of the run and run.exit the   *)
(* exit code once the process has ended (101 is the code of a panic).      *)
(*                                                                         *)
(* run hands `self` to Scanner::new and to Parser::new: the Lox is the     *)
(* error reporter of both, so what the parser's reporter records is        *)
(* recorded in the Lox.                                                    *)
(***************************************************************************)
\* Length of the sources that are enumerated in full.
MaxSrcLen == 3

ScanAlphabet ==
    {"@", EAcute, "\n", "\"", "!", "=", "<", "/", "a", "1", ".", ";", " "}

ShortSources == UNION {[1..n -> ScanAlphabet] : n \in 0..MaxSrcLen}

ListedSources ==
    {Chars(str) : str \in
        {"var a = 1;\n@ a = 2;\n#\nvar b = \"x\";",
         "\"a\nb\n\" + c",
         "x = \"ab",
         "a >= b > c >",
         "a <= b != c == d",
         "1.5 + 2. // c\n3",
         "for (var i = 0; i < 2; i = i + 1) a = i;",
         "for (;;) a;",
         "for (a = 1; a < 2;) { a = a + 1; }",
         "for (; a < 2; a = a + 1) b;",
         "var a = 0; for (var i = 0; i < 3; i = i + 1) a = a + i;",
         "var a = 0; for (; a < 2;) a = a + 1;",
         "var a = 1; var b = a +; a = 2;",
         "var a = 1; { a = 2; ) } a = 3;",
         "fun f(x) { return x; } var r = f(1);",
         "if (true) a = 1; else a = 2;",
         "while (false) a;"}}
    \cup {Chars("var s = \"") \o << EAcute >> \o Chars("\";")}

\* The for loops: every choice of initializer, condition, increment, body.
ForInitializers == {";", "var i = 0;", "i = 0;"}
ForConditions == {"", "i < 2"}
ForIncrements == {"", "i = i + 1"}
ForBodies == {"a = i;", "{ a = i; }", "for (;i < 1;) b;"}

ForText(i, c, u, b) == "for (" \o i \o c \o ";" \o u \o ") " \o b

ForSources ==
    {Chars(ForText(i, c, u, b)) :
        i \in ForInitializers, c \in ForConditions,
        u \in ForIncrements, b \in ForBodies}

Sources == ShortSources \cup ListedSources \cup ForSources

LoxInit ==
    /\ lox = Lox_new
    /\ \E source \in Sources : scanner = Scanner_new(source, Lox_new)
    /\ parser = [p |-> Parser_new(<< >>, ErrorReporter_new), statements |-> << >>]
    /\ run = Run("scan_tokens", None)
    /\ program = [family |-> "source", stmts |-> << >>]
    /\ pc = 1
    /\ st = Interpreter_new(1)
    /\ EnvUnused

\* One iteration of the loop of scan_tokens; a panic ends the process.
LoxScanToken ==
    /\ run.at = "scan_tokens"
    /\ ~Scanner_is_at_end(scanner)
    /\ scanner' = scan_tokens_step(scanner)
    /\ lox' = scanner'.lox
    /\ run' = IF scanner'.panicked THEN Run("exit", Some(101)) ELSE run
    /\ UNCHANGED <<interp_vars, env_vars, parser>>

\* scan_tokens returns the tokens with Eof added; Parser::new.
LoxScanned ==
    /\ run.at = "scan_tokens"
    /\ Scanner_is_at_end(scanner)
    /\ scanner' = scan_tokens_end(scanner)
    /\ parser' = [p |-> Parser_new(scanner'.tokens,
                                   [had_error |-> lox.had_error, errors |-> << >>]),
                  statements |-> << >>]
    /\ run' = Run("parse", None)
    /\ UNCHANGED <<interp_vars, env_vars, lox>>

\* One iteration of the loop of parse.
LoxParseItem ==
    /\ run.at = "parse"
    /\ ~Parser_is_at_end(parser.p)
    /\ parser' = parse_step(parser)
    /\ lox' = [lox EXCEPT !.had_error = parser'.p.error_reporter.had_error]
    /\ UNCHANGED <<interp_vars, env_vars, scanner, run>>

\* parse returns: exit if there were static errors, Interpreter::new if not.
LoxParsed ==
    /\ run.at = "parse"
    /\ Parser_is_at_end(parser.p)
    /\ IF lox.had_error
       THEN /\ run' = Run("exit", Some(65))
            /\ UNCHANGED program
       ELSE /\ run' = Run("interpret", None)
            /\ program' = [program EXCEPT !.stmts = parser.statements]
    /\ UNCHANGED <<pc, st, env_vars, lox, scanner, parser>>

\* One iteration of the loop of interpret.
LoxInterpret ==
    /\ run.at = "interpret"
    /\ interpret_step

\* interpret returns: exit if there were runtime errors, return if not.
LoxInterpreted ==
    /\ run.at = "interpret"
    /\ Done
    /\ lox' = [lox EXCEPT !.had_runtime_error = st.had_error]
    /\ run' = Run("exit", Some(IF st.had_error THEN 70 ELSE 0))
    /\ UNCHANGED <<interp_vars, env_vars, scanner, parser>>

LoxNext ==
    \/ LoxScanToken
    \/ LoxScanned
    \/ LoxParseItem
    \/ LoxParsed
    \/ LoxInterpret
    \/ LoxInterpreted

LoxSpec == LoxInit /\ [][LoxNext]_vars

(***************************************************************************)
(* Parser::parse on its own (parser.rs 45-55), on token lists that end     *)
(* with Eof as the scanner builds them.  The token lists come in families, *)
(* and program records the family and what the list was made of.           *)
(***************************************************************************)
MaxTokens == 3

Lexemes ==
    [LeftParen |-> "(", RightParen |-> ")", LeftBrace |-> "{",
     RightBrace |-> "}", Comma |-> ",", Minus |-> "-", Plus |-> "+",
     SemiColon |-> ";", Slash |-> "/", Star |-> "*", Bang |-> "!",
     BangEqual |-> "!=", Equal |-> "=", EqualEqual |-> "==",
     Greater |-> ">", GreaterEqual |-> ">=", Less |-> "<", LessEqual |-> "<=",
     And |-> "and", Class |-> "class", Else |-> "else", For |-> "for",
     Fun |-> "fun", If |-> "if", Or |-> "or",
     Return |-> "return", Var |-> "var", While |-> "while", Eof |-> ""]
    @@ ("Print" :> "print")

\* The token of a kind without a literal, on line 1.
Tok(kind) == Token(TT(kind), Lexemes[kind], 1)
One == Token(TTNumber(1), "1", 1)
EofToken == Tok("Eof")

\* Every short token list over a few tokens.
TokenAlphabet ==
    {Ident("a", 1), One} \cup
    {Tok(kind) : kind \in {"SemiColon", "LeftParen", "RightParen", "LeftBrace",
                            "RightBrace", "Equal", "Plus", "Var", "If",
                            "Print"}}

ShortInputs ==
    {[family |-> "short", stmts |-> << >>, tokens |-> ts \o << EofToken >>] :
        ts \in UNION {[1..n -> TokenAlphabet] : n \in 0..MaxTokens}}

\* Statements after erroneous tokens: 1 1, then a statement that begins with
\* a keyword, then a; .
Keywords == {"Class", "For", "Fun", "If", "Print", "Return", "Var", "While"}

RecoveryInputs ==
    {[family |-> "recovery", stmts |-> << >>, keyword |-> kw,
      tokens |-> << One, One, Tok(kw), Ident("b", 1), Tok("SemiColon"),
                    Ident("a", 1), Tok("SemiColon"), EofToken >>] :
        kw \in Keywords}

\* [prefix] a op1 [prefix] b op2 c ; for every two infix operators, with and
\* without prefix operators and calls.
InfixOps ==
    {"Equal", "Or", "And", "BangEqual", "EqualEqual", "Greater",
     "GreaterEqual", "Less", "LessEqual", "Plus", "Minus", "Slash", "Star"}
Prefixes == {<< >>, << "Minus" >>, << "Bang", "Minus" >>}
Suffixes == {<< >>, << "LeftParen", "RightParen" >>}

Toks(kinds) == [i \in DOMAIN kinds |-> Tok(kinds[i])]

OperandTokens(name, prefix, suffix) ==
    Toks(prefix) \o << Ident(name, 1) >> \o Toks(suffix)

PrecedenceInputs ==
    {[family |-> "precedence", stmts |-> << >>, op1 |-> op1, op2 |-> op2,
      prefix |-> pre, suffix |-> suf,
      tokens |-> << Ident("a", 1), Tok(op1) >> \o OperandTokens("b", pre, suf)
                 \o << Tok(op2), Ident("c", 1), Tok("SemiColon"), EofToken >>] :
        op1 \in InfixOps, op2 \in InfixOps, pre \in Prefixes, suf \in Suffixes}

\* target = 1 ; c ; for targets of every shape.
Targets ==
    [variable |-> << Ident("a", 1) >>,
     literal  |-> << One >>,
     grouping |-> << Tok("LeftParen"), Ident("a", 1), Tok("RightParen") >>,
     binary   |-> << Ident("a", 1), Tok("Plus"), Ident("b", 1) >>,
     unary    |-> << Tok("Minus"), Ident("a", 1) >>,
     call     |-> << Ident("a", 1), Tok("LeftParen"), Tok("RightParen") >>]

AssignmentInputs ==
    {[family |-> "assignment", stmts |-> << >>, target |-> t,
      tokens |-> Targets[t] \o << Tok("Equal"), One, Tok("SemiColon"),
                                  Ident("c", 1), Tok("SemiColon"), EofToken >>] :
        t \in DOMAIN Targets}

\* f(1, .., 1); and fun f(a, .., a) {} with n arguments or parameters, for n
\* around the limit.
Counts == (MaxArgs - 1)..(MaxArgs + 2)

Listed(token, n) ==
    [i \in 1..(2 * n - 1) |-> IF i % 2 = 1 THEN token ELSE Tok("Comma")]

LimitInputs ==
    {[family |-> "call", stmts |-> << >>, n |-> n,
      tokens |-> << Ident("f", 1), Tok("LeftParen") >> \o Listed(One, n)
                 \o << Tok("RightParen"), Tok("SemiColon"), EofToken >>] :
        n \in Counts}
    \cup
    {[family |-> "fun", stmts |-> << >>, n |-> n,
      tokens |-> << Tok("Fun"), Ident("f", 1), Tok("LeftParen") >>
                 \o Listed(Ident("a", 1), n)
                 \o << Tok("RightParen"), Tok("LeftBrace"), Tok("RightBrace"),
                       EofToken >>] :
        n \in Counts}

ParserInputs ==
    ShortInputs \cup RecoveryInputs \cup PrecedenceInputs
        \cup AssignmentInputs \cup LimitInputs

ParserInit ==
    /\ program \in ParserInputs
    /\ parser = [p |-> Parser_new(program.tokens, ErrorReporter_new),
                 statements |-> << >>]
    /\ run = Run("parse", None)
    /\ lox = Lox_new
    /\ scanner = Scanner_new(<< >>, Lox_new)
    /\ pc = 1
    /\ st = Interpreter_new(1)
    /\ EnvUnused

\* parse returns the statements and the error reporter.
ParserReturned ==
    /\ run.at = "parse"
    /\ Parser_is_at_end(parser.p)
    /\ run' = Run("parsed", None)
    /\ UNCHANGED <<interp_vars, env_vars, lox, scanner, parser>>

ParserNext ==
    \/ LoxParseItem
    \/ ParserReturned

ParserSpec == ParserInit /\ [][ParserNext]_vars

(***************************************************************************)
(* Vocabulary of the properties.                                           *)
(***************************************************************************)
\* The events of the history with one of the given names, in order.
Events(names) == SelectSeq(st.trace, LAMBDA e : e.ev \in names)

\* Falsey as the language defines it: false and nil, nothing else.
Falsey(v) == v.t = "Nil" \/ (v.t = "Boolean" /\ ~v.b)

\* s = 1; was never executed: s still holds the 0 it was declared with.
Unmarked == Global("s") = Some(NumberV(0))

(***************************************************************************)
(* C1.  A function value resolves the free variables of its body in the    *)
(* environment of its declaration: in the closure programs, make()() at    *)
(* top level returns the value x was declared with and no runtime error is *)
(* reported.                                                               *)
(***************************************************************************)
C1_ClosureReadsDeclaringScope ==
    (program.family = "closure" /\ Done) =>
        /\ Global("r") = Some(program.x0)
        /\ st.stderr = << >>

(***************************************************************************)
(* C2.  What a closure writes to a captured variable persists across its   *)
(* calls: in the counter programs the three calls of c() return x0 + 1,    *)
(* x0 + 2 and x0 + 3.                                                      *)
(***************************************************************************)
C2_CounterPersists ==
    (program.family = "counter" /\ Done) =>
        /\ Global("r1") = Some(NumberV(program.x0.n + 1))
        /\ Global("r2") = Some(NumberV(program.x0.n + 2))
        /\ Global("r3") = Some(NumberV(program.x0.n + 3))

(***************************************************************************)
(* C3.  The first runtime error halts the script: in the history, nothing  *)
(* is executed, assigned, defined or printed after an error was reported   *)
(* (stated of the halt programs, whose only error is the failing statement *)
(* they are built around).                                                 *)
(***************************************************************************)
C3_ErrorHalts ==
    program.family = "halt" =>
        \A i \in DOMAIN st.trace : \A j \in DOMAIN st.trace :
            (i < j /\ st.trace[i].ev = "error") =>
                st.trace[j].ev \notin {"execute", "assign", "define", "print"}

(***************************************************************************)
(* C4.  Truthiness: a value is falsey exactly when it is false or nil.     *)
(* In the truthy programs, t = !v is true exactly for those two values;    *)
(* the number 0 and the empty string are truthy.                           *)
(***************************************************************************)
C4_OnlyFalseAndNilFalsey ==
    (program.family = "truthy" /\ Done) =>
        Global("t") = Some(BooleanV(Falsey(program.v)))

(***************************************************************************)
(* C5.  The result of a logical expression is one of its operand values:   *)
(* a or b is a when a is truthy and b otherwise; a and b is a when a is    *)
(* falsey and b otherwise.  Stated of the left operands on which is_truthy *)
(* agrees with the language's definition of truthiness, so that only the   *)
(* choice between the operands is in question.                             *)
(***************************************************************************)
C5_LogicalResult ==
    (program.family = "logical" /\ Done
        /\ (is_truthy(program.a) <=> ~Falsey(program.a))) =>
        Global("r") = Some(IF program.op = "Or"
                           THEN IF is_truthy(program.a) THEN program.a ELSE program.b
                           ELSE IF ~is_truthy(program.a) THEN program.a ELSE program.b)

(***************************************************************************)
(* C6.  Short circuit: when the left operand of and is falsey, or the left *)
(* operand of or is truthy, the right operand is not evaluated: s keeps    *)
(* its value, nothing is assigned or called, no error is reported, only    *)
(* the logical expression and its left operand were evaluated after the    *)
(* initializer of s, and the result is the left operand.  Falsey is taken  *)
(* both as the language defines it and as is_truthy decides it.            *)
(***************************************************************************)
LeftDecides(op, a) ==
    \/ op = "And" /\ (Falsey(a) \/ ~is_truthy(a))
    \/ op = "Or" /\ (~Falsey(a) \/ is_truthy(a))

C6_ShortCircuit ==
    (program.family = "short" /\ Done /\ LeftDecides(program.op, program.a)) =>
        /\ Unmarked
        /\ Events({"assign", "call", "error"}) = << >>
        /\ st.stderr = << >>
        /\ Len(Events({"evaluate"})) = 3
        /\ Global("r") = Some(program.a)

C6_Witness ==
    /\ program.family = "short" /\ Done
    /\ program.op = "And" /\ program.a = BooleanV(FALSE) /\ program.rhs = "call"
    /\ Global("r") = Some(BooleanV(FALSE))

(***************************************************************************)
(* C7.  return; is an early return that carries nil: in the return_nil     *)
(* programs the call f() yields nil and no statement after the return is   *)
(* executed, so s is never set.                                            *)
(***************************************************************************)
C7_BareReturnEndsCall ==
    (program.family = "return_nil" /\ Done) =>
        /\ Global("r") = Some(NilV)
        /\ Unmarked

(***************************************************************************)
(* C8.  return e; propagates out of blocks, if branches and while loops to *)
(* the function call: the call yields the value of e, no statement after   *)
(* the return is executed (s is never set) and no loop condition is        *)
(* evaluated again (n counts one evaluation in the loop shapes, none       *)
(* elsewhere).                                                             *)
(***************************************************************************)
C8_EarlyReturnPropagates ==
    (program.family = "early" /\ Done) =>
        /\ Global("r") = Some(program.v)
        /\ Unmarked
        /\ Global("n") = Some(NumberV(IF program.shape \in LoopShapes THEN 1 ELSE 0))
        /\ st.stderr = << >>
        /\ ~st.cut

C8_Witness ==
    /\ program.family = "early" /\ Done
    /\ program.shape = "nested" /\ program.v = NilV
    /\ Global("r") = Some(NilV)
    /\ Global("n") = Some(NumberV(1))

(***************************************************************************)
(* C9.  Scope balance: every in_new_local_scope leaves the environment     *)
(* with the number of local layers it found, for blocks and calls that     *)
(* end normally, by an early return or with a runtime error; between two   *)
(* top-level statements no local layer is left.                            *)
(***************************************************************************)
RECURSIVE Balanced(_, _, _)
Balanced(tr, i, open) ==
    IF i > Len(tr) THEN open = << >>
    ELSE CASE tr[i].ev = "enter" -> Balanced(tr, i + 1, Append(open, tr[i].depth))
           [] tr[i].ev = "leave" ->
                  /\ open # << >>
                  /\ open[Len(open)] = tr[i].depth
                  /\ Balanced(tr, i + 1, SubSeq(open, 1, Len(open) - 1))
           [] OTHER -> Balanced(tr, i + 1, open)

C9_ScopeBalance ==
    /\ Balanced(st.trace, 1, << >>)
    /\ ScopeDepth(st.env) = 0

\* A call whose body raised a runtime error and was left.
C9_Witness ==
    /\ program.family = "halt" /\ program.context = "function" /\ Done
    /\ Events({"enter", "error", "leave"})
           = << [ev |-> "enter", depth |-> 0], [ev |-> "error", line |-> 1],
                [ev |-> "leave", depth |-> 0] >>

(***************************************************************************)
(* C10.  Arity: a call with a number of arguments other than the arity of  *)
(* the callable reports one runtime error, at the closing paren of the     *)
(* call; the body is not executed (s is never set), no scope is entered    *)
(* and no parameter is bound.                                              *)
(***************************************************************************)
C10_ArityMismatch ==
    (program.family = "arity" /\ Done
        /\ program.nargs # Callees[program.callee]) =>
        /\ Len(st.stderr) = 1
        /\ st.stderr[1].token = Token(TT("RightParen"), ")", 7)
        /\ st.stderr[1].msg = "Expect " \o fmt_usize(Callees[program.callee])
                              \o " arguments but got " \o fmt_usize(program.nargs)
        /\ Unmarked
        /\ Events({"enter", "call", "leave"}) = << >>
        /\ Global("a") = None
        /\ Global("r") = None

C10_Witness ==
    /\ program.family = "arity" /\ Done
    /\ program.callee = "f" /\ program.nargs = 2
    /\ st.had_error

(***************************************************************************)
(* C13.  Right after construction the global scope binds clock, print and  *)
(* print_env to callable values of arity 0, 1 and 0, and print(v) in a     *)
(* fresh program prints the display form of v and reports no error.        *)
(***************************************************************************)
BuiltinArity == [clock |-> 0, print |-> 1, print_env |-> 0]

\* The arity of a callable value; -1 for a value that cannot be called.
ArityOf(v) ==
    CASE v.t = "Function" -> LoxFunction_arity(v)
      [] v.t = "Clock"    -> Clock_arity
      [] v.t = "PrintEnv" -> PrintEnv_arity
      [] OTHER            -> -1

C13_BuiltinsBound ==
    /\ pc = 1 =>
           \A name \in DOMAIN BuiltinArity :
               /\ is_some(Global(name))
               /\ ArityOf(unwrap(Global(name))) = BuiltinArity[name]
    /\ (program.family = "builtin" /\ Done) =>
           /\ st.stderr = << >>
           /\ st.stdout = << [line |-> LoxObject_fmt(program.v)] >>

(***************************************************************************)
(* C15.  Every runtime error of a run is recorded in the interpreter's own *)
(* error reporter: when interpret has returned and an error was reported   *)
(* anywhere (at top level, in a block, in a loop body or in a function     *)
(* body), had_error of the interpreter is set.  Stated of the halt         *)
(* programs, which raise one error in each of these places.                *)
(***************************************************************************)
C15_ErrorFlagSet ==
    (program.family = "halt" /\ Done /\ Events({"error"}) # << >>) =>
        st.had_error

(***************************************************************************)
(* Vocabulary of the environment properties: the scopes of an environment  *)
(* from the outermost (the global scope) to the innermost, and the place   *)
(* of the nearest scope that binds a name.                                 *)
(***************************************************************************)
ScopeChain(e) ==
    << e.global >> \o (IF is_some(e.local) THEN unwrap(e.local) ELSE << >>)

Binders(e, name) ==
    {i \in 1..Len(ScopeChain(e)) : name \in DOMAIN ScopeChain(e)[i]}

Nearest(e, name) ==
    CHOOSE i \in Binders(e, name) : \A j \in Binders(e, name) : j <= i

\* The scope with the one name bound to the value, and nothing else changed.
Bound(scope, name, value) ==
    [n \in (DOMAIN scope) \cup {name} |-> IF n = name THEN value ELSE scope[n]]

UndefinedVariable(err, name) ==
    /\ err.msg = "Undefined variable " \o name
    /\ err.token.lexeme = name

(***************************************************************************)
(* C11.  Environment::assign(name, v) overwrites the binding of name in    *)
(* the nearest scope that already binds it (innermost local layer outward, *)
(* then global), returns Ok and changes no other scope and no other name;  *)
(* when no scope binds name it returns the undefined-variable error.       *)
(***************************************************************************)
C11_AssignNearest ==
    last.op = "assign" =>
        IF Binders(last.before, last.name) # {}
        THEN /\ last.ok
             /\ is_some(environment.local) = is_some(last.before.local)
             /\ ScopeChain(environment) =
                    [ScopeChain(last.before)
                        EXCEPT ![Nearest(last.before, last.name)] =
                                   Bound(@, last.name, last.value)]
             /\ \A i \in 1..Len(ScopeChain(environment)) :
                    DOMAIN ScopeChain(environment)[i] = DOMAIN ScopeChain(last.before)[i]
        ELSE /\ ~last.ok
             /\ UndefinedVariable(last.err, last.name)

\* An assignment that found the name in an outer local layer, under an inner
\* layer and over a global that both do not take the value.
C11_Witness ==
    /\ last.op = "assign" /\ last.ok
    /\ ScopeDepth(last.before) = 2
    /\ Binders(last.before, last.name) = {1, 2}
    /\ ScopeChain(last.before)[2][last.name] # last.value
    /\ ScopeChain(environment)[2][last.name] = last.value
    /\ ScopeChain(environment)[1][last.name] # last.value

(***************************************************************************)
(* C12.  Environment::define binds the name in the innermost scope only    *)
(* (the global scope when there is no local layer), overwriting a binding  *)
(* that scope has and leaving every outer scope as it was.                 *)
(* Environment::get changes nothing and returns the value of the nearest   *)
(* scope that binds the name, and the undefined-variable error when no     *)
(* scope binds it.                                                         *)
(***************************************************************************)
C12_DefineInnermostGetNearest ==
    /\ last.op = "define" =>
           /\ is_some(environment.local) = is_some(last.before.local)
           /\ ScopeChain(environment) =
                  [ScopeChain(last.before)
                      EXCEPT ![Len(ScopeChain(last.before))] =
                                 Bound(@, last.name, last.value)]
    /\ last.op = "get" =>
           /\ environment = last.before
           /\ IF Binders(environment, last.name) # {}
              THEN /\ last.ok
                   /\ last.value = ScopeChain(environment)[Nearest(environment, last.name)][last.name]
              ELSE /\ ~last.ok
                   /\ UndefinedVariable(last.err, last.name)

\* A get that read a local binding which shadows another value of the global
\* scope, after a define that overwrote the local binding.
C12_Witness ==
    /\ last.op = "get" /\ last.ok
    /\ Binders(environment, last.name) = {1, 2}
    /\ ScopeChain(environment)[1][last.name] # ScopeChain(environment)[2][last.name]
    /\ last.value = ScopeChain(environment)[2][last.name]

(***************************************************************************)
(* Vocabulary of the properties of a run of Lox::run.                      *)
(***************************************************************************)
\* The number of newline characters among the given characters.
Newlines(chars) == Cardinality({i \in DOMAIN chars : chars[i] = "\n"})

\* The scan step that was taken last began at a character of the given set:
\* the state is the one that step left (the step returned or panicked).
LastStepAt(cs) ==
    /\ run.at = "scan_tokens" \/ scanner.panicked
    /\ scanner.start < scanner.current
    /\ scanner.start < Len(scanner.source)
    /\ scanner.source[scanner.start + 1] \in cs

\* The scanner as a scan of the characters before the last step leaves it.
BeforeLastStep ==
    scan_loop(Scanner_new(SubSeq(scanner.source, 1, scanner.start), Lox_new))

(***************************************************************************)
(* C14.  Once a static error was reported, by the scanner or by the        *)
(* parser, the interpreter executes nothing (it is never entered, its      *)
(* environment and its output stay as constructed) and the run ends with   *)
(* exit code 65.                                                           *)
(***************************************************************************)
C14_StaticErrorExits65 ==
    lox.had_error =>
        /\ run.at # "interpret"
        /\ pc = 1
        /\ st = Interpreter_new(1)
        /\ run.at = "exit" => run.exit = Some(65)

(***************************************************************************)
(* C16.  scan_tokens returns for every source, and the tokens it returns   *)
(* end with one Eof token that carries the final line number (one more     *)
(* than the newlines of the source); no token before it is an Eof.         *)
(***************************************************************************)
C16_EndsWithOneEof ==
    /\ ~scanner.panicked
    /\ run.at # "scan_tokens" =>
           LET n == Len(scanner.tokens)
           IN  /\ n >= 1
               /\ scanner.tokens[n]
                      = Token(TT("Eof"), "", 1 + Newlines(scanner.source))
               /\ \A i \in 1..(n - 1) : scanner.tokens[i].token_type.tt # "Eof"

\* The characters scan_token has an arm for; every other one is unexpected.
ScannedChars ==
    DOMAIN SingleCharTokens \cup DOMAIN OneOrTwoCharTokens
        \cup {"/", " ", "\r", "\t", "\n", "\""} \cup Digits \cup Letters

Unexpected(c) == c \notin ScannedChars

\* The source with a blank in the place of every unexpected character.
Blanked(chars) ==
    [i \in DOMAIN chars |-> IF Unexpected(chars[i]) THEN " " ELSE chars[i]]

\* One report for each unexpected character, in source order, with its line.
UnexpectedReports(chars) ==
    LET at == SelectSeq([i \in 1..Len(chars) |-> i],
                        LAMBDA i : Unexpected(chars[i]))
    IN  [k \in DOMAIN at |->
            [line |-> 1 + Newlines(SubSeq(chars, 1, at[k])),
             location |-> "", msg |-> "Unexpected Character."]]

(***************************************************************************)
(* C17.  Scanning continues past an unexpected character.  The step that   *)
(* meets one reports it with its line, consumes that one character and     *)
(* emits no token.  In a source without strings and comments, the tokens   *)
(* scan_tokens returns are those of the source with blanks in the place of *)
(* the unexpected characters (every valid token, in order, on its line),   *)
(* and there is one report for each unexpected character.                  *)
(***************************************************************************)
C17_ScanContinuesPastError ==
    LET src == scanner.source
        bad == {src[i] : i \in {j \in DOMAIN src : Unexpected(src[j])}}
    IN  /\ LastStepAt(bad) =>
               /\ ~scanner.panicked
               /\ scanner.current = scanner.start + 1
               /\ scanner.tokens = BeforeLastStep.tokens
               /\ scanner.lox.stderr
                      = Append(BeforeLastStep.lox.stderr,
                               [line |-> scanner.line, location |-> "",
                                msg |-> "Unexpected Character."])
        /\ (/\ bad # {}
            /\ \A i \in DOMAIN src : src[i] \notin {"\"", "/"}
            /\ run.at # "scan_tokens") =>
               /\ ~scanner.panicked
               /\ scanner.tokens
                      = scan_tokens(Scanner_new(Blanked(src), Lox_new)).tokens
               /\ scanner.lox.stderr = UnexpectedReports(src)

\* The least element of a non-empty set of numbers.
Least(S) == CHOOSE x \in S : \A y \in S : x <= y

\* The characters after the quote the last step began at, and the places of
\* the quotes among them.
AfterQuote == SubSeq(scanner.source, scanner.start + 2, Len(scanner.source))
ClosingQuotes == {i \in DOMAIN AfterQuote : AfterQuote[i] = "\""}

(***************************************************************************)
(* C18.  String literals.  A step that begins at a quote with a closing    *)
(* quote after it consumes up to that quote and emits one String token     *)
(* whose literal is the text between the two quotes; the line counter      *)
(* grows by the number of newlines in that text.  A step that begins at a  *)
(* quote with no quote after it reports an unterminated string, emits no   *)
(* token and consumes the rest of the source, and scan_tokens then ends    *)
(* the tokens with Eof.                                                    *)
(***************************************************************************)
C18_StringLiterals ==
    /\ (LastStepAt({"\""}) /\ ClosingQuotes # {}) =>
           LET inside == SubSeq(AfterQuote, 1, Least(ClosingQuotes) - 1)
           IN  /\ ~scanner.panicked
               /\ scanner.current = scanner.start + Len(inside) + 2
               /\ scanner.line = BeforeLastStep.line + Newlines(inside)
               /\ scanner.tokens
                      = Append(BeforeLastStep.tokens,
                               Token(TTString(collect(inside)),
                                     "\"" \o collect(inside) \o "\"",
                                     scanner.line))
               /\ scanner.lox = BeforeLastStep.lox
    /\ (LastStepAt({"\""}) /\ ClosingQuotes = {}) =>
           /\ ~scanner.panicked
           /\ scanner.current = Len(scanner.source)
           /\ scanner.tokens = BeforeLastStep.tokens
           /\ scanner.lox.stderr
                  = Append(BeforeLastStep.lox.stderr,
                           [line |-> scanner.line, location |-> "",
                            msg |-> "Unterminated String"])
    /\ (/\ run.at # "scan_tokens"
        /\ ~scanner.panicked
        /\ scanner.start < Len(scanner.source)
        /\ scanner.source[scanner.start + 1] = "\""
        /\ ClosingQuotes = {}) =>
           scanner.tokens = Append(BeforeLastStep.tokens,
                                   Token(TT("Eof"), "", scanner.line))

(***************************************************************************)
(* C19.  Operators of one or two characters.  A step that begins at !, =,  *)
(* < or > consumes the next character exactly when it is =, and emits the  *)
(* two-character kind then; otherwise (another character, or the end of    *)
(* the source) it emits the one-character kind and consumes nothing more,  *)
(* so the next character begins the next token.                            *)
(***************************************************************************)
C19_TwoCharOperators ==
    LastStepAt(DOMAIN OneOrTwoCharTokens) =>
        LET src == scanner.source
            c == src[scanner.start + 1]
            followed == /\ scanner.start + 2 <= Len(src)
                        /\ src[scanner.start + 2] = "="
            kind == IF followed THEN OneOrTwoCharTokens[c].two
                    ELSE OneOrTwoCharTokens[c].one
        IN  /\ ~scanner.panicked
            /\ scanner.current = scanner.start + (IF followed THEN 2 ELSE 1)
            /\ scanner.tokens
                   = Append(BeforeLastStep.tokens,
                            Token(TT(kind), IF followed THEN c \o "=" ELSE c,
                                  scanner.line))
            /\ scanner.lox = BeforeLastStep.lox

\* What one rule of the parser makes of a piece of source.
ParsedExpression(str) ==
    expression(Parser_new(Tokens(str), ErrorReporter_new)).val
ParsedDeclaration(str) ==
    declaration(Parser_new(Tokens(str), ErrorReporter_new)).val

LiteralTrue == LiteralExpr(Token(TT("True"), "true", 0))

\* for (I; C; U) B as the spec desugars it, from the parses of its parts.
Desugared(i, c, u, b) ==
    LET B == ParsedDeclaration(b)
        body == IF u = "" THEN B
                ELSE BlockStmt(<< B, ExpressionStmt(ParsedExpression(u)) >>)
        loop == WhileStmt(IF c = "" THEN LiteralTrue ELSE ParsedExpression(c),
                          body)
    IN  IF i = ";" THEN loop ELSE BlockStmt(<< ParsedDeclaration(i), loop >>)

\* The parser is done with the for loop made of the given parts.
ParsedFor(i, c, u, b) ==
    /\ run.at \in {"interpret", "exit"}
    /\ scanner.source = Chars(ForText(i, c, u, b))

(***************************************************************************)
(* C20.  The parser desugars for (I; C; U) B into                          *)
(* Block[I, While(C, Block[B, U])]: without C the condition is the literal *)
(* true, without I there is no outer block, without U the body of the loop *)
(* is B itself.  No static error is reported for these loops.              *)
(***************************************************************************)
C20_ForDesugared ==
    \A i \in ForInitializers, c \in ForConditions,
       u \in ForIncrements, b \in ForBodies :
        ParsedFor(i, c, u, b) =>
            /\ ~lox.had_error
            /\ parser.statements = << Desugared(i, c, u, b) >>

\* A loop with all three clauses was parsed into a block of the initializer
\* and a while loop whose body is a block of the body and the increment.
C20_Witness ==
    \E b \in ForBodies :
        /\ ParsedFor("var i = 0;", "i < 2", "i = i + 1", b)
        /\ Len(parser.statements) = 1
        /\ parser.statements[1].k = "Block"
        /\ parser.statements[1].body[1].k = "VariableDeclaration"
        /\ parser.statements[1].body[2].k = "While"
        /\ parser.statements[1].body[2].body.k = "Block"
        /\ parser.statements[1].body[2].body.body[2].k = "Expression"

(***************************************************************************)
(* Vocabulary of the properties of Parser::parse.                          *)
(***************************************************************************)
\* The iteration of the loop of parse that is about to run fails: its
\* declaration returns an error, which parse_item reports before it
\* synchronizes.
ItemFails ==
    /\ run.at = "parse"
    /\ ~Parser_is_at_end(parser.p)
    /\ ~declaration(parser.p).ok

\* The parser that failing declaration leaves, with the error reported.
Reported ==
    LET d == declaration(parser.p) IN Parser_error(d.p, d.err)

\* The cursor at which synchronize is to stop when it starts from p and
\* stops at the given keywords: it discards the token the error is at, and
\* then tokens up to the first place where the previous token is ; or the
\* current token is one of the keywords or Eof.
StopCursor(p, kws) ==
    LET eof == Len(p.tokens) - 1
        from == IF p.current < eof THEN p.current + 1 ELSE eof
        stops == {i \in from..eof :
                     \/ i = eof
                     \/ i >= 1 /\ p.tokens[i].token_type.tt = "SemiColon"
                     \/ p.tokens[i + 1].token_type.tt \in kws}
    IN  CHOOSE i \in stops : \A j \in stops : i <= j

(***************************************************************************)
(* C21.  Error recovery.  After a parse error synchronize discards tokens  *)
(* and stops as soon as the previous token is ; or the current token is    *)
(* one of class, for, fun, if, print, return, var, while (or Eof), and     *)
(* parsing resumes there: in 1 1 K b ; a ; the parser resumes at the       *)
(* keyword K, whichever of the eight it is.                                *)
(***************************************************************************)
C21_SynchronizeStops ==
    /\ ItemFails =>
           synchronize(Reported).current = StopCursor(Reported, Keywords)
    /\ (/\ program.family = "recovery"
        /\ Len(parser.p.error_reporter.errors) = 1
        /\ parser.statements = << >>) =>
           current_token(parser.p).token_type.tt = program.keyword

\* The expressions the targets of the assignment family are to parse to.
TargetExprs ==
    [variable |-> Var("a"),
     literal  |-> LiteralExpr(One),
     grouping |-> GroupingExpr(Var("a")),
     binary   |-> BinaryExpr(Var("a"), Tok("Plus"), Var("b")),
     unary    |-> UnaryExpr(Tok("Minus"), Var("a")),
     call     |-> CallExpr(Var("a"), Tok("RightParen"), << >>)]

\* parse has returned.
Parsed == run.at = "parsed"

(***************************************************************************)
(* C22.  Assignment.  Where = follows a left-hand side, the right-hand     *)
(* side is parsed as an assignment, so that a = b = c is a = (b = c).  A   *)
(* Variable on the left gives an Assignment node and no error.  Any other  *)
(* left-hand side is reported as an InvalidAssignmentTarget at the =, and  *)
(* nothing is discarded: the cursor is where the right-hand side ended,    *)
(* the left-hand side is the expression of the statement, and in           *)
(* T = 1 ; c ; both statements are parsed.                                 *)
(***************************************************************************)
C22_Assignment ==
    /\ (run.at = "parse" /\ Parser_or(parser.p).ok
          /\ advance_on(Parser_or(parser.p).p, "Equal").found) =>
           LET lhs == Parser_or(parser.p)
               eq == advance_on(lhs.p, "Equal").p
               rhs == assignment(eq)
               got == assignment(parser.p)
           IN  IF ~rhs.ok THEN got = rhs
               ELSE /\ got.ok
                    /\ got.p.current = rhs.p.current
                    /\ IF lhs.val.k = "Variable"
                       THEN /\ got.val = AssignmentExpr(lhs.val.name, rhs.val)
                            /\ got.p = rhs.p
                       ELSE /\ got.val = lhs.val
                            /\ got.p.error_reporter.errors =
                                   Append(rhs.p.error_reporter.errors,
                                          ParseError("InvalidAssignmentTarget",
                                                     previous_token(eq), ""))
    /\ (Parsed /\ program.family = "assignment") =>
           /\ parser.statements =
                  << ExpressionStmt(IF program.target = "variable"
                                    THEN AssignmentExpr(Ident("a", 1),
                                                        LiteralExpr(One))
                                    ELSE TargetExprs[program.target]),
                     ExpressionStmt(Var("c")) >>
           /\ parser.p.error_reporter.errors =
                  IF program.target = "variable" THEN << >>
                  ELSE << ParseError("InvalidAssignmentTarget", Tok("Equal"),
                                     "") >>
    /\ (Parsed /\ program.family = "precedence" /\ program.op1 = "Equal"
          /\ program.op2 = "Equal" /\ program.prefix = << >>
          /\ program.suffix = << >>) =>
           parser.statements =
               << ExpressionStmt(AssignmentExpr(Ident("a", 1),
                      AssignmentExpr(Ident("b", 1), Var("c")))) >>

\* An assignment to a call has been reported and both statements parsed.
C22_Witness ==
    /\ Parsed
    /\ program.family = "assignment"
    /\ program.target = "call"
    /\ Len(parser.p.error_reporter.errors) = 1
    /\ Len(parser.statements) = 2

\* The parser has reported a TooManyFunctionArguments.
TooManyReported ==
    \E i \in DOMAIN parser.p.error_reporter.errors :
        parser.p.error_reporter.errors[i].kind = "TooManyFunctionArguments"

\* The one statement parsed is the call, or the declaration, with n
\* arguments, or parameters.
NodeWith(n) ==
    /\ Len(parser.statements) = 1
    /\ IF program.family = "call"
       THEN /\ parser.statements[1].k = "Expression"
            /\ parser.statements[1].expr.k = "Call"
            /\ Len(parser.statements[1].expr.args) = n
       ELSE /\ parser.statements[1].k = "FunctionDeclaration"
            /\ Len(parser.statements[1].params) = n

(***************************************************************************)
(* C23.  The limit of 255.  A call with n arguments and a declaration with *)
(* n parameters report TooManyFunctionArguments exactly when n > 255, so   *)
(* not at n = 255; the report is the only error, and the call or the       *)
(* declaration is still parsed, with all n arguments or parameters.        *)
(***************************************************************************)
C23_Limit255 ==
    (Parsed /\ program.family \in {"call", "fun"}) =>
        /\ TooManyReported <=> program.n > MaxArgs
        /\ \A i \in DOMAIN parser.p.error_reporter.errors :
               parser.p.error_reporter.errors[i].kind =
                   "TooManyFunctionArguments"
        /\ NodeWith(program.n)

\* How tightly an infix operator binds, from the grammar: assignment, or,
\* and, equality, comparison, term, factor.
Binding ==
    [Equal |-> 1, Or |-> 2, And |-> 3, BangEqual |-> 4, EqualEqual |-> 4,
     Greater |-> 5, GreaterEqual |-> 5, Less |-> 5, LessEqual |-> 5,
     Plus |-> 6, Minus |-> 6, Slash |-> 7, Star |-> 7]

\* The node of an infix operator on two operands; an assignment to what is
\* not a variable is reported and leaves its left-hand side.
Infix(op, lhs, rhs) ==
    IF op = "Equal"
    THEN IF lhs.k = "Variable" THEN AssignmentExpr(lhs.name, rhs) ELSE lhs
    ELSE IF op \in {"Or", "And"} THEN LogicalExpr(lhs, Tok(op), rhs)
    ELSE BinaryExpr(lhs, Tok(op), rhs)

\* The operand name with its suffix, a call, and then its prefixes, the
\* first of them outermost.
RECURSIVE Prefixed(_, _)
Prefixed(prefix, e) ==
    IF prefix = << >> THEN e
    ELSE UnaryExpr(Tok(Head(prefix)), Prefixed(Tail(prefix), e))

OperandExpr(name, prefix, suffix) ==
    Prefixed(prefix, IF suffix = << >> THEN Var(name)
                     ELSE CallExpr(Var(name), Tok("RightParen"), << >>))

\* The tree of a op1 B op2 c: the operator that binds tighter takes B, the
\* left one when they bind alike, the right one when both are =.
Nested(op1, op2, b) ==
    IF Binding[op1] < Binding[op2] \/ (op1 = "Equal" /\ op2 = "Equal")
    THEN Infix(op1, Var("a"), Infix(op2, b, Var("c")))
    ELSE Infix(op2, Infix(op1, Var("a"), b), Var("c"))

(***************************************************************************)
(* C24.  Precedence and associativity.  For every two infix operators and  *)
(* every operand B made of unary prefixes and a call, the statement        *)
(* a op1 B op2 c ; parses to the tree in which the operator of the tighter *)
(* level takes B (assignment, or, and, equality, comparison, term, factor, *)
(* from the loosest), two operators of one level nest to the left, two     *)
(* assignments to the right, the prefixes of B nest to the right, and the  *)
(* call is innermost.                                                      *)
(***************************************************************************)
C24_Precedence ==
    (Parsed /\ program.family = "precedence") =>
        parser.statements =
            << ExpressionStmt(Nested(program.op1, program.op2,
                   OperandExpr("b", program.prefix, program.suffix))) >>

\* a + ! - b ( ) * c has been parsed: the product is the right operand of
\* the sum, and the call is under the two prefixes.
C24_Witness ==
    /\ Parsed
    /\ program.family = "precedence"
    /\ program.op1 = "Plus"
    /\ program.op2 = "Star"
    /\ program.prefix = << "Bang", "Minus" >>
    /\ program.suffix # << >>
    /\ parser.statements[1].expr.k = "Binary"
    /\ parser.statements[1].expr.rhs.k = "Binary"
    /\ parser.statements[1].expr.rhs.lhs.rhs.rhs.k = "Call"

\* The variants whose values carry a payload to compare, and Nil.
Primitive == {"Nil", "String", "Number", "Boolean"}

\* Equality of two values as the language defines it: of one primitive
\* variant and with the same payload.
SameValue(a, b) == a.t \in Primitive /\ a = b

(***************************************************************************)
(* C25.  Value equality.  a == b is true exactly when a and b are both     *)
(* nil, or two strings, two numbers or two booleans with the same payload; *)
(* values of different variants are not equal, and a function or a         *)
(* built-in is equal to nothing, not even to itself.  a != b is the        *)
(* negation, and neither operator reports an error.                        *)
(***************************************************************************)
C25_ValueEquality ==
    /\ \A a \in Values, b \in Values :
           LoxObject_eq(a, b) <=> SameValue(a, b)
    /\ (program.family = "binary" /\ Done
          /\ program.op \in {"EqualEqual", "BangEqual"}) =>
           /\ Global("r") =
                  Some(BooleanV(SameValue(program.a, program.b)
                                    <=> program.op = "EqualEqual"))
           /\ st.stderr = << >>

\* f == f has been evaluated, to false.
C25_Witness ==
    /\ program.family = "binary" /\ Done
    /\ program.op = "EqualEqual"
    /\ program.a = LoxFunction_from(DeclF)
    /\ program.b = program.a
    /\ Global("r") = Some(BooleanV(FALSE))

Arithmetic == {"Minus", "Plus", "Star", "Slash"}
Comparisons == {"Greater", "GreaterEqual", "Less", "LessEqual"}
Equalities == {"EqualEqual", "BangEqual"}

\* What an operator is to yield on two numbers that are integers.
Applied(op, x, y) ==
    CASE op = "Minus"        -> NumberV(x - y)
      [] op = "Plus"         -> NumberV(x + y)
      [] op = "Star"         -> NumberV(x * y)
      [] op = "Slash"        -> IF y # 0 /\ x % y = 0 THEN NumberV(x \div y)
                                ELSE NonIntV(x, y)
      [] op = "Greater"      -> BooleanV(x > y)
      [] op = "GreaterEqual" -> BooleanV(x >= y)
      [] op = "Less"         -> BooleanV(x < y)
      [] op = "LessEqual"    -> BooleanV(x <= y)
      [] op = "EqualEqual"   -> BooleanV(x = y)
      [] op = "BangEqual"    -> BooleanV(x # y)

\* The statement var r = ..; failed with one runtime error, at the token.
FailedAt(token) ==
    /\ Global("r") = None
    /\ Len(st.stderr) = 1
    /\ st.stderr[1].token = token

(***************************************************************************)
(* C27.  Binary operators.  var r = a op b; for every pair of operand      *)
(* values: + gives the sum of two numbers and the concatenation of two     *)
(* strings, - * / give a number and < <= > >= a boolean for two numbers,   *)
(* and every other pair is one runtime error at the operator.  The left    *)
(* operand is evaluated before the right one ((s = 1) op s works on 1 and  *)
(* 1), and both before the types are checked: in nil op (s = 1) the        *)
(* assignment is done before the error, in nil op u the error is that of   *)
(* u, and in u op (s = 1) the assignment is never done.                    *)
(***************************************************************************)
C27_BinaryOperators ==
    /\ (program.family = "binary" /\ Done /\ program.op \notin Equalities) =>
           IF program.a.t = "Number" /\ program.b.t = "Number"
           THEN /\ Global("r") =
                       Some(Applied(program.op, program.a.n, program.b.n))
                /\ unwrap(Global("r")).t =
                       (IF program.op \in Comparisons THEN "Boolean"
                        ELSE "Number")
                /\ st.stderr = << >>
           ELSE IF program.op = "Plus" /\ program.a.t = "String"
                   /\ program.b.t = "String"
           THEN /\ Global("r") = Some(StringV(program.a.s \o program.b.s))
                /\ st.stderr = << >>
           ELSE FailedAt(BinOp(program.op))
    /\ (program.family = "operands" /\ Done) =>
           CASE program.case = "order" ->
                    /\ Global("r") = Some(Applied(program.op, 1, 1))
                    /\ Global("s") = Some(NumberV(1))
                    /\ st.stderr = << >>
             [] program.case = "check" ->
                    /\ Global("s") = Some(NumberV(1))
                    /\ IF program.op \in Equalities
                       THEN Global("r") =
                                Some(BooleanV(program.op = "BangEqual"))
                       ELSE FailedAt(BinOp(program.op))
             [] program.case = "left_fails" ->
                    /\ Unmarked
                    /\ FailedAt(Ident("u", 1))
             [] program.case = "right_fails" ->
                    FailedAt(Ident("u", 1))

\* nil - (s = 1) has failed at the -, after the assignment.
C27_Witness ==
    /\ program.family = "operands" /\ Done
    /\ program.case = "check"
    /\ program.op = "Minus"
    /\ Global("s") = Some(NumberV(1))
    /\ st.stderr[1].msg = "Can only subtract number types"

\* The one runtime error of the run, if it reported exactly one.
OneError(token, msg) ==
    /\ Len(st.stderr) = 1
    /\ st.stderr[1].token = token
    /\ st.stderr[1].msg = msg

\* The body of f was not run: x and y hold what they were declared with.
NotCalled == Global("x") = Some(NumberV(0)) /\ Global("y") = Some(NumberV(0))

ClosingParen == Token(TT("RightParen"), ")", 7)

(***************************************************************************)
(* C26.  Order of a call.  The callee is evaluated first ((s = f)(s, s)    *)
(* passes f), then every argument once, from left to right                 *)
(* (f((s = s + 1), (s = s + s)) passes 1 and 2 and leaves s = 2), and only *)
(* then is the callee checked: 1((s = 1)) and f((s = 1)) assign before     *)
(* they fail with "Can only call functions and classes." and with the      *)
(* arity error, both at the closing paren, and 1(u) fails with the error   *)
(* of u.  An error of the callee or of an argument ends the call before    *)
(* anything after it is evaluated.                                         *)
(***************************************************************************)
C26_CallOrder ==
    (program.family = "call_order" /\ Done) =>
        CASE program.case = "args_order" ->
                 /\ Global("x") = Some(NumberV(1))
                 /\ Global("y") = Some(NumberV(2))
                 /\ Global("s") = Some(NumberV(2))
                 /\ st.stderr = << >>
          [] program.case = "callee_first" ->
                 /\ is_some(Global("x")) /\ unwrap(Global("x")).t = "Function"
                 /\ Global("y") = Global("x")
                 /\ st.stderr = << >>
          [] program.case = "not_callable" ->
                 /\ Global("s") = Some(NumberV(1))
                 /\ OneError(ClosingParen, "Can only call functions and classes.")
          [] program.case = "arg_first" ->
                 /\ Len(st.stderr) = 1
                 /\ st.stderr[1].token = Ident("u", 1)
          [] program.case = "arity" ->
                 /\ Global("s") = Some(NumberV(1))
                 /\ OneError(ClosingParen, "Expect 2 arguments but got 1")
                 /\ NotCalled
          [] program.case = "callee_fails" ->
                 /\ Unmarked
                 /\ Len(st.stderr) = 1
                 /\ st.stderr[1].token = Ident("u", 1)
          [] program.case = "arg_fails" ->
                 /\ Unmarked
                 /\ NotCalled
                 /\ Len(st.stderr) = 1
                 /\ st.stderr[1].token = Ident("u", 1)

\* 1((s = 1)) has failed at its closing paren, after the assignment.
C26_Witness ==
    /\ program.family = "call_order" /\ Done
    /\ program.case = "not_callable"
    /\ Global("s") = Some(NumberV(1))
    /\ st.had_error

(***************************************************************************)
(* C28.  A failed assignment changes nothing.  When Environment::assign    *)
(* returns the undefined-variable error the environment is the one it was  *)
(* called on: no scope binds the name, a get of the name fails and an      *)
(* assign of any value to the name fails again.                            *)
(***************************************************************************)
C28_FailedAssignChangesNothing ==
    (last.op = "assign" /\ ~last.ok) =>
        /\ environment = last.before
        /\ Binders(environment, last.name) = {}
        /\ ~Environment_get(environment, Ident(last.name, 1)).ok
        /\ \A w \in EnvValues :
               ~Environment_assign(environment, Ident(last.name, 1), w).ok

\* The method called last does not write the name in the global scope: only
\* define and assign write, and only the name they are given.
Keeps(name) == last.op \notin {"define", "assign"} \/ name # last.name

(***************************************************************************)
(* C29.  The local chain and the global scope.  The local chain of the     *)
(* environment is absent or has at least one layer.  pop_scope_layer on an *)
(* environment without local chain returns None and changes nothing.  No   *)
(* method removes a binding of the global scope, and a binding the method  *)
(* did not write has the value it had: adding and popping layers, and      *)
(* defining and assigning other names, leave it in place.                  *)
(***************************************************************************)
C29_GlobalNeverPopped ==
    /\ is_some(environment.local) => Len(unwrap(environment.local)) >= 1
    /\ DOMAIN environment.global # {}
    /\ last.op # "new" =>
           /\ DOMAIN last.before.global \subseteq DOMAIN environment.global
           /\ \A name \in DOMAIN last.before.global :
                  Keeps(name) =>
                      environment.global[name] = last.before.global[name]
           /\ (last.op = "pop_scope_layer" /\ ~is_some(last.before.local)) =>
                  /\ environment = last.before
                  /\ ~last.ok

\* A pop without local chain, on an environment whose global scope binds a
\* name besides the built-ins.
C29_Witness ==
    /\ last.op = "pop_scope_layer"
    /\ ~is_some(last.before.local)
    /\ ~last.ok
    /\ "a" \in DOMAIN environment.global

\* The parser with its cursor at the k-th token (counted from 0).
At(k) == [parser.p EXCEPT !.current = k]

\* The cursor of the Eof token, the last of the tokens.
EofCursor == Len(parser.p.tokens) - 1

\* The cursors from which an iteration is tried: every cursor before Eof,
\* and in the lists of hundreds of tokens the cursor of the run.
Cursors ==
    IF program.family \in {"call", "fun"}
    THEN {parser.p.current} \cap (0..(EofCursor - 1))
    ELSE 0..(EofCursor - 1)

(***************************************************************************)
(* C30.  Progress.  The cursor is never past the Eof token, which ends     *)
(* the tokens.  Wherever the cursor stands before Eof, an iteration of the *)
(* loop of parse and an iteration of the loop of a block leave it further  *)
(* on and not past Eof, whether the declaration was parsed or failed and   *)
(* synchronize ran; so each loop ends after at most as many iterations as  *)
(* there are tokens.                                                       *)
(***************************************************************************)
C30_ParserProgress ==
    /\ parser.p.current <= EofCursor
    /\ run.at \in {"parse", "parsed"} =>
           /\ parser.p.tokens[EofCursor + 1].token_type.tt = "Eof"
           /\ \A k \in Cursors :
                  LET step == parse_step([p |-> At(k), statements |-> << >>])
                      item == parse_item(At(k))
                  IN  /\ step.p.current > k
                      /\ step.p.current <= EofCursor
                      /\ item.p.current > k
                      /\ item.p.current <= EofCursor
                      /\ current_token_is_a(At(k), "LeftBrace") =>
                             block_statement(At(k + 1)).p.current <= EofCursor

\* An iteration is about to fail at a token after the first without taking
\* any token: the one token synchronize discards is its progress.
C30_Witness ==
    /\ ItemFails
    /\ parser.p.current > 0
    /\ declaration(parser.p).p.current = parser.p.current
    /\ parse_step(parser).p.current = parser.p.current + 1
====
